---- MODULE Spec2Model ----
(***************************************************************************)
(* Model of the deep career analysis engine (src/analysis_engine.py): nine *)
(* analyses computed from one survey snapshot (page2_data) and the         *)
(* orchestrator run_all_analyses that collects them.                       *)
(*                                                                         *)
(* Representation.  A Python dict is a function with a string domain, a    *)
(* list is a sequence, an optional value (x or None) is a sequence of      *)
(* length 0 or 1.  Numbers that the code holds as floats are exact         *)
(* rationals [n |-> numerator, d |-> denominator > 0] in lowest terms:     *)
(* floating-point evaluation is modelled as exact real arithmetic, and     *)
(* Python's round() as round-half-to-even on the exact value.  The         *)
(* snapshot stores rates in tenths of a percent point (the retrieval       *)
(* layer rounds them to one decimal) and incomes and vacancy counts as     *)
(* whole numbers.                                                          *)
(***************************************************************************)
EXTENDS Integers, Sequences, FiniteSets, TLC

VARIABLES
    given,      \* the survey snapshot as the caller built it
    snapshot,   \* page2_data: the object the engine's functions are handed
    results,    \* the mapping being built (analysis name -> result dict)
    outcome     \* "running" | "returned" | "raised"

vars == <<given, snapshot, results, outcome>>

-----------------------------------------------------------------------------
(* Python values *)

None == <<>>
Some(x) == <<x>>
IsNone(o) == o = <<>>
Val(o) == o[1]

EmptyDict == [k \in {} |-> 0]

\* d.get(k, default)
Get(d, k, default) == IF k \in DOMAIN d THEN d[k] ELSE default

\* d.get(k): the value wrapped as an optional, None when the key is missing
GetOpt(d, k) == IF k \in DOMAIN d THEN Some(d[k]) ELSE None

Range(s) == {s[i] : i \in DOMAIN s}

\* [e for e in s if keep(e)]
Filter(s, keep(_)) ==
    LET F[i \in 0..Len(s)] ==
            IF i = 0 THEN <<>>
            ELSE IF keep(s[i]) THEN Append(F[i - 1], s[i]) ELSE F[i - 1]
    IN  F[Len(s)]

\* [f(e) for e in s]
Map(s, f(_)) == [i \in DOMAIN s |-> f(s[i])]

-----------------------------------------------------------------------------
(* Exact rational arithmetic standing for the code's float arithmetic *)

Abs(x) == IF x < 0 THEN -x ELSE x

RECURSIVE GCD(_, _)
GCD(a, b) == IF b = 0 THEN a ELSE GCD(b, a % b)

Norm(n, d) ==
    LET g == GCD(Abs(n), Abs(d))
        s == IF d < 0 THEN -1 ELSE 1
    IN  [n |-> s * (n \div g), d |-> s * (d \div g)]

R(n, d) == Norm(n, d)
I(n) == [n |-> n, d |-> 1]

\* The operators on rationals take their operands as values: each operand
\* is evaluated once, before the operation, as an argument of a Python
\* expression is.

AddFrac(a, b) ==
    LET g == GCD(a.d, b.d)
    IN  Norm(a.n * (b.d \div g) + b.n * (a.d \div g), a.d * (b.d \div g))

RAdd(a, b) == CHOOSE sum \in {AddFrac(x, y) : x \in {a}, y \in {b}} : TRUE

RNeg(a) == [n |-> -a.n, d |-> a.d]
RSub(a, b) == RAdd(a, RNeg(b))

MulFrac(a, b) ==
    LET g1 == GCD(Abs(a.n), b.d)
        g2 == GCD(Abs(b.n), a.d)
    IN  Norm((a.n \div g1) * (b.n \div g2), (a.d \div g2) * (b.d \div g1))

RMul(a, b) == CHOOSE product \in {MulFrac(x, y) : x \in {a}, y \in {b}} : TRUE

RInv(a) == Norm(a.d, a.n)
RDiv(a, b) == RMul(a, RInv(b))

\* sign of a - b, without forming a product: continued-fraction comparison
RECURSIVE CmpFrac(_, _, _, _)
CmpFrac(a, b, c, d) ==
    LET qa == a \div b
        qc == c \div d
        ra == a % b
        rc == c % d
    IN  IF qa < qc THEN -1
        ELSE IF qa > qc THEN 1
        ELSE IF ra = 0 /\ rc = 0 THEN 0
        ELSE IF ra = 0 THEN -1
        ELSE IF rc = 0 THEN 1
        ELSE CmpFrac(d, rc, b, ra)

RCmp(a, b) ==
    CHOOSE sign \in {CmpFrac(x.n, x.d, y.n, y.d) : x \in {a}, y \in {b}} : TRUE
RLt(a, b) == RCmp(a, b) < 0
RLe(a, b) == RCmp(a, b) <= 0
RGt(a, b) == RCmp(a, b) > 0
RGe(a, b) == RCmp(a, b) >= 0

RMax(a, b) == IF RGe(a, b) THEN a ELSE b
RMin(a, b) == IF RLe(a, b) THEN a ELSE b

RECURSIVE RSum(_)
RSum(s) == IF s = <<>> THEN I(0) ELSE RAdd(s[1], RSum(Tail(s)))

\* np.mean of a non-empty list
Mean(s) == RDiv(RSum(s), I(Len(s)))

Pow10(k) == CASE k = 0 -> 1 [] k = 1 -> 10 [] k = 2 -> 100 [] k = 3 -> 1000 [] k = 4 -> 10000

\* the integer nearest to r, ties to the even one
RoundHalfEven(r) ==
    LET f == r.n \div r.d
        twice == 2 * (r.n - f * r.d)
    IN  IF twice < r.d THEN f
        ELSE IF twice > r.d THEN f + 1
        ELSE IF f % 2 = 0 THEN f ELSE f + 1

\* Python round(x, k)
Round(r, k) ==
    CHOOSE rounded \in
        {R(RoundHalfEven(scaled), Pow10(k)) : scaled \in {RMul(r, I(Pow10(k)))}} : TRUE

-----------------------------------------------------------------------------
(* Static configuration read by the engine (src/config.py) *)

\* UNEMP_EDU, in the order of the dict literal (.items() iterates in it)
UNEMP_EDU ==
    << [name |-> "Total, all education levels", id |-> 1],
       [name |-> "0 to 8 years", id |-> 2],
       [name |-> "Some high school", id |-> 3],
       [name |-> "High school graduate", id |-> 4],
       [name |-> "Some postsecondary", id |-> 5],
       [name |-> "Postsecondary certificate or diploma", id |-> 6],
       [name |-> "University degree", id |-> 7],
       [name |-> "Bachelor's degree", id |-> 8],
       [name |-> "Above bachelor's degree", id |-> 9] >>

\* EDUCATION_OPTIONS[label]["unemp"]
EDUCATION_OPTIONS ==
    [ x \in { "Bachelor's degree", "Master's degree", "Earned doctorate",
              "College, CEGEP or other non-university certificate or diploma",
              "Apprenticeship or trades certificate or diploma",
              "High school diploma",
              "Degree in medicine, dentistry, veterinary medicine or optometry",
              "University degree (any)" } |->
        [unemp |->
            CASE x = "Bachelor's degree" -> 8
              [] x = "Master's degree" -> 9
              [] x = "Earned doctorate" -> 9
              [] x = "College, CEGEP or other non-university certificate or diploma" -> 6
              [] x = "Apprenticeship or trades certificate or diploma" -> 6
              [] x = "High school diploma" -> 4
              [] x = "Degree in medicine, dentistry, veterinary medicine or optometry" -> 9
              [] x = "University degree (any)" -> 7 ] ]

-----------------------------------------------------------------------------
(* A. Composite career prospect score *)

\* sum(1 for e in s if test(e))
CountIf(s, test(_)) == Cardinality({i \in DOMAIN s : test(s[i])})

\* a variant of _percentile_score without the cap min(100.0, ...)
_percentile_score_uncapped(value, all_values) ==
    IF all_values = <<>> \/ IsNone(value) THEN I(50)
    ELSE LET n == Len(all_values)
             count_below == CountIf(all_values, LAMBDA v : v < Val(value))
         IN  IF n = 1 THEN I(50)
             ELSE RMul(R(count_below, n - 1), I(100))

\* a variant of _percentile_score that counts the values equal to value too
_percentile_score_counting_equal(value, all_values) ==
    IF all_values = <<>> \/ IsNone(value) THEN I(50)
    ELSE LET n == Len(all_values)
             count_below == CountIf(all_values, LAMBDA v : v <= Val(value))
         IN  IF n = 1 THEN I(50)
             ELSE RMin(I(100), RMul(R(count_below, n - 1), I(100)))

\* _percentile_score(value, all_values); value is optional
_percentile_score(value, all_values) ==
    IF all_values = <<>> \/ IsNone(value) THEN I(50)
    ELSE LET n == Len(all_values)
             count_below == CountIf(all_values, LAMBDA v : v < Val(value))
         IN  IF n = 1 THEN I(50)
             ELSE RMin(I(100), RMul(R(count_below, n - 1), I(100)))

\* a variant of _grade with strict thresholds (> in place of >=)
_grade_strict(score) ==
    IF RGt(score, I(80)) THEN "A"
    ELSE IF RGt(score, I(65)) THEN "B"
    ELSE IF RGt(score, I(50)) THEN "C"
    ELSE IF RGt(score, I(35)) THEN "D"
    ELSE "F"

\* _grade(score)
_grade(score) ==
    IF RGe(score, I(80)) THEN "A"
    ELSE IF RGe(score, I(65)) THEN "B"
    ELSE IF RGe(score, I(50)) THEN "C"
    ELSE IF RGe(score, I(35)) THEN "D"
    ELSE "F"

\* position of the first element of s that satisfies test, 0 when none does
FirstIdx(s, test(_)) ==
    LET hits == {i \in DOMAIN s : test(s[i])}
    IN  IF hits = {} THEN 0 ELSE CHOOSE i \in hits : \A j \in hits : i <= j

\* _find_user_unemployment_series(trends, user_education).  trends is a dict
\* whose insertion order is that of UNEMP_EDU (fetch_unemployment_trends
\* fills it in that order), so next(iter(trends.values())) is the series of
\* the first UNEMP_EDU name that is a key of trends.
_find_user_unemployment_series(trends, user_education) ==
    LET user_edu_id == GetOpt(Get(EDUCATION_OPTIONS, user_education, EmptyDict), "unemp")
        hit == FirstIdx(UNEMP_EDU,
                        LAMBDA e : Some(e.id) = user_edu_id /\ e.name \in DOMAIN trends)
        first == FirstIdx(UNEMP_EDU, LAMBDA e : e.name \in DOMAIN trends)
    IN  IF hit # 0 THEN trends[UNEMP_EDU[hit].name]
        ELSE IF DOMAIN trends # {} THEN trends[UNEMP_EDU[first].name]
        ELSE <<>>

\* sum of i * y[i] over the 0-based index i
RECURSIVE SumXY(_, _)
SumXY(y, i) ==
    IF i > Len(y) THEN I(0)
    ELSE RAdd(RMul(I(i - 1), y[i]), SumXY(y, i + 1))

\* np.polyfit(np.arange(len(y)), y, 1): the least-squares line through
\* (0, y[1]), (1, y[2]), ...; len(y) >= 2
Polyfit(y) ==
    LET n == Len(y)
        Sx == (n * (n - 1)) \div 2
        Sxx == ((n - 1) * n * (2 * n - 1)) \div 6
        Sy == RSum(y)
        Sxy == SumXY(y, 1)
        slope == RDiv(RSub(RMul(I(n), Sxy), RMul(I(Sx), Sy)), I(n * Sxx - Sx * Sx))
        intercept == RDiv(RSub(Sy, RMul(slope, I(Sx))), I(n))
    IN  [slope |-> slope, intercept |-> intercept]

\* np.polyval(coeffs, x)
Polyval(coeffs, x) == RAdd(RMul(coeffs.slope, x), coeffs.intercept)

\* max(0.0, min(100.0, x))
Clamp100(x) == RMax(I(0), RMin(I(100), x))

\* a stored rate (tenths) as the number the code sees
Tenths(v) == R(v, 10)

\* Employment sub-score, lines 57-64
EmploymentComponent(page2_data) ==
    LET labour == Get(page2_data, "labour_force", EmptyDict)
        emp_rate == GetOpt(Get(labour, "summary", EmptyDict), "employment_rate")
        comparison == Get(labour, "comparison", <<>>)
        all_emp_rates ==
            Map(Filter(comparison, LAMBDA c : GetOpt(c, "employment_rate") # None),
                LAMBDA c : c.employment_rate)
    IN  IF emp_rate # None /\ all_emp_rates # <<>>
        THEN Round(_percentile_score(emp_rate, all_emp_rates), 1)
        ELSE I(50)

\* Income sub-score, lines 67-74
IncomeComponent(page2_data) ==
    LET income == Get(page2_data, "income", EmptyDict)
        median_inc == GetOpt(Get(income, "summary", EmptyDict), "median_income")
        ranking == Get(income, "ranking", <<>>)
        all_incomes ==
            Map(Filter(ranking, LAMBDA r : GetOpt(r, "median_income") # None),
                LAMBDA r : r.median_income)
    IN  IF median_inc # None /\ all_incomes # <<>>
        THEN Round(_percentile_score(median_inc, all_incomes), 1)
        ELSE I(50)

\* the series the three unemployment readers select, lines 77-81
UserSeries(page2_data) ==
    LET unemp == Get(page2_data, "unemployment", EmptyDict)
        user_edu == Get(unemp, "user_education", "")
        trends == Get(unemp, "trends", EmptyDict)
    IN  _find_user_unemployment_series(trends, user_edu)

\* a variant of the Trend sub-score that always reads the first series of the
\* mapping
TrendComponent_first_series(page2_data) ==
    LET trends == Get(Get(page2_data, "unemployment", EmptyDict), "trends", EmptyDict)
        user_series == _find_user_unemployment_series(trends, "")
    IN  IF user_series # <<>> /\ Len(user_series) >= 3
        THEN LET values == Map(user_series, LAMBDA d : Tenths(d.value))
                 slope == Polyfit(values).slope
             IN  Round(Clamp100(RSub(I(50), RMul(slope, I(25)))), 1)
        ELSE I(50)

\* a variant of the Trend sub-score in which a rising series scores higher
TrendComponent_rising_scores_higher(page2_data) ==
    LET user_series == UserSeries(page2_data)
    IN  IF user_series # <<>> /\ Len(user_series) >= 3
        THEN LET values == Map(user_series, LAMBDA d : Tenths(d.value))
                 slope == Polyfit(values).slope
             IN  Round(Clamp100(RAdd(I(50), RMul(slope, I(25)))), 1)
        ELSE I(50)

\* Trend sub-score, lines 76-90
TrendComponent(page2_data) ==
    LET user_series == UserSeries(page2_data)
    IN  IF user_series # <<>> /\ Len(user_series) >= 3
        THEN LET values == Map(user_series, LAMBDA d : Tenths(d.value))
                 slope == Polyfit(values).slope
             IN  Round(Clamp100(RSub(I(50), RMul(slope, I(25)))), 1)
        ELSE I(50)

\* Demand sub-score, lines 92-111
DemandComponent(page2_data) ==
    LET vacancies == Get(page2_data, "job_vacancies", EmptyDict)
        vac_trends == Get(vacancies, "trends", <<>>)
        vac_values ==
            Map(Filter(vac_trends, LAMBDA t : Get(t, "vacancies", None) # None),
                LAMBDA t : I(Val(t.vacancies)))
        mid == Len(vac_values) \div 2
        older_avg == Mean(SubSeq(vac_values, 1, mid))
        recent_avg == Mean(SubSeq(vac_values, mid + 1, Len(vac_values)))
        change_pct == RMul(RDiv(RSub(recent_avg, older_avg), older_avg), I(100))
    IN  IF vac_trends # <<>> /\ Len(vac_trends) >= 4
        THEN IF Len(vac_values) >= 4
             THEN IF RGt(older_avg, I(0))
                  THEN Round(Clamp100(RAdd(I(50), change_pct)), 1)
                  ELSE Round(I(50), 1)
             ELSE I(50)
        ELSE I(50)

\* a variant of the Growth sub-score that takes a missing growth_pct as 0
GrowthComponent_zero_default(page2_data) ==
    LET grad == Get(page2_data, "graduate_outcomes", EmptyDict)
        growth_pct == GetOpt(Get(grad, "summary", EmptyDict), "growth_pct")
    IN  IF growth_pct # None
        THEN Round(Clamp100(RMul(Tenths(Val(growth_pct)), I(2))), 1)
        ELSE I(0)

\* Growth sub-score, lines 113-121
GrowthComponent(page2_data) ==
    LET grad == Get(page2_data, "graduate_outcomes", EmptyDict)
        growth_pct == GetOpt(Get(grad, "summary", EmptyDict), "growth_pct")
    IN  IF growth_pct # None
        THEN Round(Clamp100(RMul(Tenths(Val(growth_pct)), I(2))), 1)
        ELSE I(50)

\* weights, lines 124-130
Weights ==
    [Employment |-> R(25, 100), Income |-> R(25, 100), Trend |-> R(20, 100),
     Demand |-> R(15, 100), Growth |-> R(15, 100)]

ComponentOrder == <<"Employment", "Income", "Trend", "Demand", "Growth">>

\* compute_composite_score(page2_data)
compute_composite_score(page2_data) ==
    LET components ==
            [Employment |-> EmploymentComponent(page2_data),
             Income |-> IncomeComponent(page2_data),
             Trend |-> TrendComponent(page2_data),
             Demand |-> DemandComponent(page2_data),
             Growth |-> GrowthComponent(page2_data)]
        total == Round(RSum([i \in 1..5 |->
                     RMul(components[ComponentOrder[i]], Weights[ComponentOrder[i]])]), 1)
    IN  [total |-> total, components |-> components, grade |-> _grade(total)]

-----------------------------------------------------------------------------
(* B. Trend analysis and 3-step forecast *)

\* values[a:b] of a Python list (0-based, b exclusive), 0 <= a <= b <= len
Slice(s, a, b) == SubSeq(s, a + 1, b)

Max(a, b) == IF a >= b THEN a ELSE b

\* a variant of _moving_average that leaves the series as it is
_moving_average_unsmoothed(values, window) == values

\* _moving_average(values, window)
_moving_average(values, window) ==
    IF Len(values) < window THEN values
    ELSE [j \in 1..Len(values) |->
            LET i == j - 1
                start == Max(0, i - window + 1)
            IN  Mean(Slice(values, start, i + 1))]

\* np.std(r): the population standard deviation, kept as its square
\* (the variance), since the root itself is irrational
Variance(r) ==
    LET m == Mean(r)
    IN  Mean([i \in DOMAIN r |-> RMul(RSub(r[i], m), RSub(r[i], m))])

\* whether (m / s)^2 <= q, for m >= 0, s > 0
SquareFits(m, s, q) == CmpFrac(m * m, s * s, q.n, q.d) <= 0

\* floor(sqrt(q)) for a rational q >= 0, sought from m <= sqrt(q) upwards
FloorSqrtFrom(q, m) ==
    CHOOSE r \in m..Max(m, q.n \div q.d) :
        /\ r = m \/ SquareFits(r, 1, q)
        /\ ~SquareFits(r + 1, 1, q)

\* floor(10^k * sqrt(q)), one decimal digit at a time
RECURSIVE FloorSqrt(_, _)
FloorSqrt(q, k) ==
    IF k = 0 THEN FloorSqrtFrom(q, 0)
    ELSE LET p == 10 * FloorSqrt(q, k - 1)
             t == CHOOSE t \in 0..9 :
                     /\ SquareFits(p + t, Pow10(k), q)
                     /\ (t = 9 \/ ~SquareFits(p + t + 1, Pow10(k), q))
         IN  p + t

\* round(v + sgn * sqrt(q), k) for v a multiple of 10^-k, sgn in {1, -1}:
\* with m = floor(10^k sqrt(q)), the fraction of 10^k sqrt(q) is compared
\* with 1/2 through (2m + 1)^2 against 4 * 10^2k * q
RoundWithRoot(v, sgn, q, k) ==
    LET s == Pow10(k)
        V == RoundHalfEven(RMul(v, I(s)))
        m == FloorSqrt(q, k)
        exact == CmpFrac(m * m, s * s, q.n, q.d) = 0
        half == CmpFrac((2 * m + 1) * (2 * m + 1), 4 * s * s, q.n, q.d)
        lo == IF sgn = 1 THEN V + m ELSE IF exact THEN V - m ELSE V - m - 1
        up == half < 0       \* the fraction exceeds one half
        tie == half = 0
        nearest ==
            IF exact THEN lo
            ELSE IF tie THEN (IF lo % 2 = 0 THEN lo ELSE lo + 1)
            ELSE IF sgn = 1 THEN (IF up THEN lo + 1 ELSE lo)
            ELSE (IF up THEN lo ELSE lo + 1)
    IN  R(nearest, s)

\* a decimal digit character and its value
DigitChars == <<"0", "1", "2", "3", "4", "5", "6", "7", "8", "9">>
IsDigit(c) == \E i \in 1..10 : DigitChars[i] = c
DigitVal(c) == (CHOOSE i \in 1..10 : DigitChars[i] = c) - 1

\* int(s) for a string s given as its characters: defined on a non-empty
\* run of decimal digits; anything else is a ValueError (None here)
RECURSIVE DigitsValue(_)
DigitsValue(s) == IF s = <<>> THEN 0 ELSE 10 * DigitsValue(SubSeq(s, 1, Len(s) - 1)) + DigitVal(s[Len(s)])

ParseInt(s) ==
    IF s # <<>> /\ \A i \in DOMAIN s : IsDigit(s[i]) THEN Some(DigitsValue(s)) ELSE None

\* str(n) for n >= 0, as its characters
RECURSIVE ToStr(_)
ToStr(n) == IF n < 10 THEN <<DigitChars[n + 1]>> ELSE Append(ToStr(n \div 10), DigitChars[(n % 10) + 1])

\* forecast_dates of the unemployment forecast, lines 203-207
YearLabels(dates) ==
    LET last == dates[Len(dates)]
        last_year == ParseInt(SubSeq(last, 1, IF Len(last) < 4 THEN Len(last) ELSE 4))
    IN  IF last_year # None
        THEN [i \in 1..3 |-> ToStr(Val(last_year) + (i - 1) + 1)]
        ELSE [i \in 1..3 |-> <<"Y", "+">> \o ToStr((i - 1) + 1)]

\* a variant of the fit whose lower band is not floored at 0
FitAndForecast_unfloored(smoothed, decimals) ==
    LET coeffs == Polyfit(smoothed)
        residuals == [i \in DOMAIN smoothed |-> RSub(smoothed[i], Polyval(coeffs, I(i - 1)))]
        variance == Variance(residuals)
        n == Len(smoothed)
        forecast_values ==
            [i \in 1..3 |-> RMax(I(0), Round(Polyval(coeffs, I(n + i - 1)), decimals))]
    IN  [coeffs |-> coeffs,
         variance |-> variance,
         forecast_values |-> forecast_values,
         upper_band |-> [i \in 1..3 |-> RoundWithRoot(forecast_values[i], 1, variance, decimals)],
         lower_band |-> [i \in 1..3 |-> RoundWithRoot(forecast_values[i], -1, variance, decimals)]]

\* the fit, the band and the forecast shared by both forecasters:
\* lines 187-200 and 209-210, and 254-265 and 269-270, with the number of
\* decimals of the forecast as a parameter
FitAndForecast(smoothed, decimals) ==
    LET coeffs == Polyfit(smoothed)
        fitted == [i \in DOMAIN smoothed |-> Polyval(coeffs, I(i - 1))]
        residuals == [i \in DOMAIN smoothed |-> RSub(smoothed[i], fitted[i])]
        variance == Variance(residuals)
        n == Len(smoothed)
        forecast_values ==
            [i \in 1..3 |-> RMax(I(0), Round(Polyval(coeffs, I(n + i - 1)), decimals))]
    IN  [coeffs |-> coeffs,
         variance |-> variance,
         forecast_values |-> forecast_values,
         upper_band |-> [i \in 1..3 |-> RoundWithRoot(forecast_values[i], 1, variance, decimals)],
         lower_band |-> [i \in 1..3 |->
                            RMax(I(0), RoundWithRoot(forecast_values[i], -1, variance, decimals))]]

\* the Success record of compute_unemployment_forecast, from the series and
\* the fit of its smoothed values; in the interpretation strings an ASCII
\* hyphen stands for the dash of the source
UnemploymentForecastRecord(dates, values, smoothed, f) ==
    [dates |-> dates,
     values |-> values,
     smoothed |-> smoothed,
     forecast_dates |-> YearLabels(dates),
     forecast_values |-> f.forecast_values,
     upper_band |-> f.upper_band,
     lower_band |-> f.lower_band,
     slope |-> Round(f.coeffs.slope, 4),
     std_residual |-> RoundWithRoot(I(0), 1, f.variance, 4),
     interpretation |->
         IF RLt(f.coeffs.slope, R(-1, 10)) THEN "Improving - unemployment trending downward"
         ELSE IF RGt(f.coeffs.slope, R(1, 10)) THEN "Worsening - unemployment trending upward"
         ELSE "Stable - unemployment relatively flat"]

\* the points of the selected series: dates and values (in percent)
SeriesDates(series) == Map(series, LAMBDA d : d.date)
SeriesValues(series) == Map(series, LAMBDA d : Tenths(d.value))

\* a variant that fits the line to the raw values, not to the smoothed ones
UnemploymentForecastOf_raw(dates, values, smoothed) ==
    UnemploymentForecastRecord(dates, values, smoothed, FitAndForecast(values, 2))

UnemploymentForecastOf(dates, values, smoothed) ==
    UnemploymentForecastRecord(dates, values, smoothed, FitAndForecast(smoothed, 2))

\* a variant of compute_unemployment_forecast that accepts two points
compute_unemployment_forecast_two_points(page2_data) ==
    LET series == UserSeries(page2_data)
    IN  IF series = <<>> \/ Len(series) < 2
        THEN [error |-> "Insufficient unemployment data for forecasting"]
        ELSE UnemploymentForecastOf(SeriesDates(series), SeriesValues(series),
                                    _moving_average(SeriesValues(series), 3))

\* compute_unemployment_forecast(page2_data)
compute_unemployment_forecast(page2_data) ==
    LET series == UserSeries(page2_data)
    IN  IF series = <<>> \/ Len(series) < 3
        THEN [error |-> "Insufficient unemployment data for forecasting"]
        ELSE UnemploymentForecastOf(SeriesDates(series), SeriesValues(series),
                                    _moving_average(SeriesValues(series), 3))

\* the Success record of compute_vacancy_forecast
VacancyForecastRecord(valid_dates, values, smoothed, f) ==
    [dates |-> valid_dates,
     values |-> values,
     smoothed |-> smoothed,
     forecast_dates |-> [i \in 1..3 |-> <<"Q", "+">> \o ToStr((i - 1) + 1)],
     forecast_values |-> f.forecast_values,
     upper_band |-> f.upper_band,
     lower_band |-> f.lower_band,
     slope |-> Round(f.coeffs.slope, 2),
     std_residual |-> RoundWithRoot(I(0), 1, f.variance, 2),
     interpretation |->
         IF RGt(f.coeffs.slope, I(100)) THEN "Growing - job vacancies increasing"
         ELSE IF RLt(f.coeffs.slope, I(-100)) THEN "Declining - job vacancies decreasing"
         ELSE "Stable - job vacancies relatively flat"]

\* the entries of the vacancy trend whose count is not missing
ValidVacancies(vac_trends) == Filter(vac_trends, LAMBDA t : Get(t, "vacancies", None) # None)
VacancyValues(present) == Map(present, LAMBDA t : I(Val(t.vacancies)))
VacancyDates(present) == Map(present, LAMBDA t : t.date)

VacancyForecastOf(valid_dates, values, smoothed) ==
    VacancyForecastRecord(valid_dates, values, smoothed, FitAndForecast(smoothed, 0))

\* compute_vacancy_forecast(page2_data)
compute_vacancy_forecast(page2_data) ==
    LET vac == Get(page2_data, "job_vacancies", EmptyDict)
        vac_trends == Get(vac, "trends", <<>>)
        present == ValidVacancies(vac_trends)
    IN  IF vac_trends = <<>> \/ Len(vac_trends) < 4
        THEN [error |-> "Insufficient vacancy data for forecasting"]
        ELSE IF Len(present) < 4
        THEN [error |-> "Insufficient vacancy data for forecasting"]
        ELSE VacancyForecastOf(VacancyDates(present), VacancyValues(present),
                               _moving_average(VacancyValues(present), 3))

-----------------------------------------------------------------------------
(* C. Income growth projection *)

\* math.log(y) for the years 1..15, to two decimals
Ln(y) ==
    R(<<0, 69, 110, 139, 161, 179, 195, 208, 220, 230, 240, 248, 256, 264, 271>>[y],
      100)

\* a variant of LogFit whose intercept is taken at year 5 instead of year 2
LogFit_intercept_at_5(income_2yr, income_5yr) ==
    LET ln2 == Ln(2)
        ln5 == Ln(5)
        a == RDiv(I(income_5yr - income_2yr), RSub(ln5, ln2))
    IN  [a |-> a, b |-> RSub(I(income_2yr), RMul(a, ln5))]

\* the two-point fit of income = a * ln(year) + b, lines 316-319
LogFit(income_2yr, income_5yr) ==
    LET ln2 == Ln(2)
        ln5 == Ln(5)
        a == RDiv(I(income_5yr - income_2yr), RSub(ln5, ln2))
    IN  [a |-> a, b |-> RSub(I(income_2yr), RMul(a, ln2))]

\* round(a * math.log(y) + b, 0), lines 323 and 328
CurveIncome(fit, y) == Round(RAdd(RMul(fit.a, Ln(y)), fit.b), 0)

\* a variant of IncomeProjectionOf whose headline points are read one year
\* early
IncomeProjectionOf_early(income_2yr, income_5yr, fit, field_avg_2yr) ==
    [data_points |-> << [year |-> 2, income |-> income_2yr],
                        [year |-> 5, income |-> income_5yr] >>,
     projected_points |-> << [year |-> 10, income |-> CurveIncome(fit, 9)],
                             [year |-> 15, income |-> CurveIncome(fit, 14)] >>,
     curve_years |-> [y \in 1..15 |-> y],
     curve_incomes |-> [y \in 1..15 |-> CurveIncome(fit, y)],
     formula |-> [a |-> Round(fit.a, 2), b |-> Round(fit.b, 2)],
     field_avg_2yr |-> field_avg_2yr]

\* the record returned at lines 338-351
IncomeProjectionOf(income_2yr, income_5yr, fit, field_avg_2yr) ==
    [data_points |-> << [year |-> 2, income |-> income_2yr],
                        [year |-> 5, income |-> income_5yr] >>,
     projected_points |-> << [year |-> 10, income |-> CurveIncome(fit, 10)],
                             [year |-> 15, income |-> CurveIncome(fit, 15)] >>,
     curve_years |-> [y \in 1..15 |-> y],
     curve_incomes |-> [y \in 1..15 |-> CurveIncome(fit, y)],
     formula |-> [a |-> Round(fit.a, 2), b |-> Round(fit.b, 2)],
     field_avg_2yr |-> field_avg_2yr]

\* a variant of compute_income_projection without its guard on the two
\* anchor incomes: the logarithm of a missing income raises
compute_income_projection_unguarded(page2_data) ==
    LET grad == Get(page2_data, "graduate_outcomes", EmptyDict)
        summary == Get(grad, "summary", EmptyDict)
        income_2yr == GetOpt(summary, "income_2yr")
        income_5yr == GetOpt(summary, "income_5yr")
    IN  IF income_2yr = None \/ income_5yr = None
        THEN [raise |-> "TypeError"]
        ELSE IF Val(income_2yr) <= 0
        THEN [error |-> "Invalid income data (2yr income <= 0)"]
        ELSE IncomeProjectionOf(Val(income_2yr), Val(income_5yr),
                                LogFit(Val(income_2yr), Val(income_5yr)), None)

\* compute_income_projection(page2_data)
compute_income_projection(page2_data) ==
    LET grad == Get(page2_data, "graduate_outcomes", EmptyDict)
        summary == Get(grad, "summary", EmptyDict)
        income_2yr == GetOpt(summary, "income_2yr")
        income_5yr == GetOpt(summary, "income_5yr")
        comparison == Get(grad, "comparison", <<>>)
        incomes ==
            Map(Filter(comparison, LAMBDA c : GetOpt(c, "income_2yr") # None),
                LAMBDA c : I(c.income_2yr))
    IN  IF income_2yr = None \/ income_5yr = None
        THEN [error |-> "Insufficient graduate income data for projection"]
        ELSE IF Val(income_2yr) <= 0
        THEN [error |-> "Invalid income data (2yr income <= 0)"]
        ELSE IncomeProjectionOf(
                 Val(income_2yr), Val(income_5yr),
                 LogFit(Val(income_2yr), Val(income_5yr)),
                 IF comparison # <<>> /\ incomes # <<>>
                 THEN Some(Round(Mean(incomes), 0)) ELSE None)

-----------------------------------------------------------------------------
(* D. Career stability / risk assessment *)

\* the letter for a coefficient of variation, lines 382-391
VolatilityGrade(cv) ==
    IF RLt(cv, I(10)) THEN "A"
    ELSE IF RLt(cv, I(20)) THEN "B"
    ELSE IF RLt(cv, I(30)) THEN "C"
    ELSE IF RLt(cv, I(40)) THEN "D"
    ELSE "F"

\* the letter for an income symmetry, lines 403-412
SymmetryGrade(sym) ==
    IF RGe(sym, R(95, 100)) THEN "A"
    ELSE IF RGe(sym, R(85, 100)) THEN "B"
    ELSE IF RGe(sym, R(75, 100)) THEN "C"
    ELSE IF RGe(sym, R(65, 100)) THEN "D"
    ELSE "F"

\* grade_map, line 415
grade_map(g) ==
    CASE g = "A" -> 4 [] g = "B" -> 3 [] g = "C" -> 2 [] g = "D" -> 1 [] g = "F" -> 0
      [] g = "N/A" -> 2

\* a variant of OverallGrade that averages both sub-grades whenever one is
\* available, an N/A counting as grade_map gives it
OverallGrade_counting_missing(volatility_grade, symmetry_grade) ==
    LET avg_grade == R(grade_map(volatility_grade) + grade_map(symmetry_grade), 2)
    IN  IF volatility_grade # "N/A" \/ symmetry_grade # "N/A"
        THEN IF RGe(avg_grade, R(35, 10)) THEN "A"
             ELSE IF RGe(avg_grade, R(25, 10)) THEN "B"
             ELSE IF RGe(avg_grade, R(15, 10)) THEN "C"
             ELSE IF RGe(avg_grade, R(5, 10)) THEN "D"
             ELSE "F"
        ELSE "N/A"

\* the overall letter, lines 416-431
OverallGrade(volatility_grade, symmetry_grade) ==
    LET grades == <<volatility_grade, symmetry_grade>>
        valid_grades == Filter(grades, LAMBDA g : g # "N/A")
        avg_grade == R(grade_map(valid_grades[1])
                       + (IF Len(valid_grades) = 2 THEN grade_map(valid_grades[2]) ELSE 0),
                       Len(valid_grades))
    IN  IF valid_grades # <<>>
        THEN IF RGe(avg_grade, R(35, 10)) THEN "A"
             ELSE IF RGe(avg_grade, R(25, 10)) THEN "B"
             ELSE IF RGe(avg_grade, R(15, 10)) THEN "C"
             ELSE IF RGe(avg_grade, R(5, 10)) THEN "D"
             ELSE "F"
        ELSE "N/A"

\* a variant of the risk factors whose thresholds are themselves factors
RiskFactors_inclusive(volatility_cv, income_symmetry) ==
    (IF volatility_cv # None /\ RGe(Val(volatility_cv), I(25))
     THEN <<"high unemployment volatility">> ELSE <<>>)
    \o (IF income_symmetry # None /\ RLe(Val(income_symmetry), R(80, 100))
        THEN <<"significant income inequality (median << average)">> ELSE <<>>)

\* risk_factors, lines 434-438
RiskFactors(volatility_cv, income_symmetry) ==
    (IF volatility_cv # None /\ RGt(Val(volatility_cv), I(25))
     THEN <<"high unemployment volatility">> ELSE <<>>)
    \o (IF income_symmetry # None /\ RLt(Val(income_symmetry), R(80, 100))
        THEN <<"significant income inequality (median << average)">> ELSE <<>>)

\* compute_risk_assessment(page2_data)
compute_risk_assessment(page2_data) ==
    LET series == UserSeries(page2_data)
        values == Map(series, LAMBDA d : Tenths(d.value))
        mean_val == Mean(values)
        \* round(std / mean * 100, 1), the root taken of variance * 100^2 / mean^2
        cv == RoundWithRoot(I(0), 1,
                  RDiv(RMul(Variance(values), I(10000)), RMul(mean_val, mean_val)), 1)
        has_cv == series # <<>> /\ Len(series) >= 3 /\ RGt(mean_val, I(0))
        volatility_cv == IF has_cv THEN Some(cv) ELSE None
        volatility_grade == IF has_cv THEN VolatilityGrade(cv) ELSE "N/A"
        income == Get(page2_data, "income", EmptyDict)
        median_inc == GetOpt(Get(income, "summary", EmptyDict), "median_income")
        avg_inc == GetOpt(Get(income, "summary", EmptyDict), "average_income")
        \* "if median_inc and avg_inc and avg_inc > 0": None and 0 are falsy
        has_sym == /\ median_inc # None /\ Val(median_inc) # 0
                   /\ avg_inc # None /\ Val(avg_inc) # 0
                   /\ Val(avg_inc) > 0
        sym == Round(R(Val(median_inc), Val(avg_inc)), 3)
        income_symmetry == IF has_sym THEN Some(sym) ELSE None
        symmetry_grade == IF has_sym THEN SymmetryGrade(sym) ELSE "N/A"
        risk_factors == RiskFactors(volatility_cv, income_symmetry)
    IN  [volatility_cv |-> volatility_cv,
         volatility_grade |-> volatility_grade,
         income_symmetry |-> income_symmetry,
         symmetry_grade |-> symmetry_grade,
         overall_grade |-> OverallGrade(volatility_grade, symmetry_grade),
         \* the text, with the joined factors kept as their list
         interpretation |->
             IF risk_factors = <<>>
             THEN [text |-> "Low risk profile - stable employment and balanced income distribution",
                   factors |-> <<>>]
             ELSE [text |-> "Risk factors: ", factors |-> risk_factors]]

-----------------------------------------------------------------------------
(* E. Education ROI *)

\* edu_order, lines 491-498
edu_order ==
    <<"High school diploma", "Apprenticeship/trades", "College/CEGEP",
      "Bachelor's degree", "Master's degree", "Earned doctorate">>

\* EDUCATION_COSTS.get(level, 20_000), lines 458-465 and 516
EDUCATION_COSTS(level) ==
    CASE level = "High school diploma" -> 0
      [] level = "Apprenticeship/trades" -> 8000
      [] level = "College/CEGEP" -> 12000
      [] level = "Bachelor's degree" -> 22000
      [] level = "Master's degree" -> 25000
      [] level = "Earned doctorate" -> 28000
      [] OTHER -> 20000

\* EDUCATION_DURATIONS.get(level, 2), lines 467-474 and 517
EDUCATION_DURATIONS(level) ==
    CASE level = "High school diploma" -> 0
      [] level = "Apprenticeship/trades" -> 2
      [] level = "College/CEGEP" -> 2
      [] level = "Bachelor's degree" -> 4
      [] level = "Master's degree" -> 2
      [] level = "Earned doctorate" -> 4
      [] OTHER -> 2

\* income_map after the loop of lines 500-502: the last entry of a level wins
IncomeMap(by_education) ==
    [e \in {by_education[i].education : i \in DOMAIN by_education} |->
        LET last == CHOOSE i \in DOMAIN by_education :
                        /\ by_education[i].education = e
                        /\ \A j \in DOMAIN by_education :
                               by_education[j].education = e => j <= i
        IN  by_education[last].median_income]

\* a variant of RoiEntry that divides whenever the premium is not zero, so
\* that a negative premium gives a negative number of years
RoiEntry_signed(from_level, to_level, income_map) ==
    LET from_income == income_map[from_level]
        to_income == income_map[to_level]
        income_premium == to_income - from_income
        annual_cost == EDUCATION_COSTS(to_level)
        duration == EDUCATION_DURATIONS(to_level)
        total_cost == annual_cost * duration
    IN  [from_level |-> from_level,
         to_level |-> to_level,
         from_income |-> from_income,
         to_income |-> to_income,
         income_premium |-> income_premium,
         premium_pct |->
             Round(IF from_income > 0
                   THEN RMul(R(income_premium, from_income), I(100)) ELSE I(0), 1),
         total_cost |-> total_cost,
         duration_years |-> duration,
         break_even_years |->
             IF income_premium # 0 THEN Some(Round(R(total_cost, income_premium), 1))
             ELSE None]

\* one entry of levels, lines 508-536
RoiEntry(from_level, to_level, income_map) ==
    LET from_income == income_map[from_level]
        to_income == income_map[to_level]
        income_premium == to_income - from_income
        annual_cost == EDUCATION_COSTS(to_level)
        duration == EDUCATION_DURATIONS(to_level)
        total_cost == annual_cost * duration
    IN  [from_level |-> from_level,
         to_level |-> to_level,
         from_income |-> from_income,
         to_income |-> to_income,
         income_premium |-> income_premium,
         premium_pct |->
             Round(IF from_income > 0
                   THEN RMul(R(income_premium, from_income), I(100)) ELSE I(0), 1),
         total_cost |-> total_cost,
         duration_years |-> duration,
         break_even_years |->
             IF income_premium > 0 THEN Some(Round(R(total_cost, income_premium), 1))
             ELSE None]

\* a variant of RoiLevels that reports a pair only when its two levels are
\* neighbours in edu_order
RoiLevels_neighbours_only(available, income_map) ==
    LET Position(e) == CHOOSE k \in DOMAIN edu_order : edu_order[k] = e
        all == [i \in 1..(Len(available) - 1) |->
                   RoiEntry(available[i], available[i + 1], income_map)]
    IN  Filter(all, LAMBDA l : Position(l.to_level) = Position(l.from_level) + 1)

\* levels after the loop of lines 507-536: one entry for each two successive
\* elements of available
RoiLevels(available, income_map) ==
    [i \in 1..(Len(available) - 1) |->
        RoiEntry(available[i], available[i + 1], income_map)]

\* a variant of FirstMin that takes the first entry with the greatest
\* break-even
FirstMin_greatest(positive) ==
    LET i == CHOOSE i \in DOMAIN positive :
                 /\ \A j \in DOMAIN positive :
                        RGe(Val(positive[i].break_even_years), Val(positive[j].break_even_years))
                 /\ \A j \in 1..(i - 1) :
                        RGt(Val(positive[i].break_even_years), Val(positive[j].break_even_years))
    IN  positive[i]

\* min(positive, key=...): the first entry with the least break-even
FirstMin(positive) ==
    LET i == CHOOSE i \in DOMAIN positive :
                 /\ \A j \in DOMAIN positive :
                        RLe(Val(positive[i].break_even_years), Val(positive[j].break_even_years))
                 /\ \A j \in 1..(i - 1) :
                        RLt(Val(positive[i].break_even_years), Val(positive[j].break_even_years))
    IN  positive[i]

\* a variant of compute_education_roi that returns the Error when fewer than
\* two canonical levels are available
compute_education_roi_by_levels(page2_data) ==
    LET income == Get(page2_data, "income", EmptyDict)
        by_education == Get(income, "by_education", <<>>)
        income_map == IncomeMap(by_education)
        available == Filter(edu_order, LAMBDA e : e \in DOMAIN income_map)
        levels == RoiLevels(available, income_map)
        positive == Filter(levels, LAMBDA l : /\ l.break_even_years # None
                                              /\ RGt(Val(l.break_even_years), I(0)))
    IN  IF Len(available) < 2
        THEN [error |-> "Insufficient education-level income data for ROI"]
        ELSE [levels |-> levels,
              best_roi |-> IF positive # <<>> THEN Some(FirstMin(positive)) ELSE None]

\* compute_education_roi(page2_data)
compute_education_roi(page2_data) ==
    LET income == Get(page2_data, "income", EmptyDict)
        by_education == Get(income, "by_education", <<>>)
        income_map == IncomeMap(by_education)
        available == Filter(edu_order, LAMBDA e : e \in DOMAIN income_map)
        levels == RoiLevels(available, income_map)
        positive == Filter(levels, LAMBDA l : /\ l.break_even_years # None
                                              /\ RGt(Val(l.break_even_years), I(0)))
    IN  IF Len(by_education) < 2
        THEN [error |-> "Insufficient education-level income data for ROI"]
        ELSE [levels |-> levels,
              best_roi |-> IF positive # <<>> THEN Some(FirstMin(positive)) ELSE None]

-----------------------------------------------------------------------------
(* F. Field competitiveness; G, H. the two quadrants *)

\* {e[key]: ... for e in entries}.keys()
Keys(entries, key) == {entries[i][key] : i \in DOMAIN entries}

\* the broad fields in the order sorted() gives their names
FieldOrder ==
    <<"Agriculture, natural resources and conservation",
      "Architecture, engineering, and related trades",
      "Business, management and public administration",
      "Education",
      "Health and related fields",
      "Humanities",
      "Mathematics, computer and information sciences",
      "Personal, protective and transportation services",
      "Physical and life sciences and technologies",
      "Social and behavioural sciences and law",
      "Visual and performing arts, and communications technologies">>

\* sorted(names), for names of broad fields
SortedNames(names) == Filter(FieldOrder, LAMBDA f : f \in names)

\* {e[key]: e[value] for e in entries}: the last entry of a key wins
DictOf(entries, key, value) ==
    [k \in Keys(entries, key) |->
        LET last == CHOOSE i \in DOMAIN entries :
                        /\ entries[i][key] = k
                        /\ \A j \in DOMAIN entries : entries[j][key] = k => j <= i
        IN  entries[last][value]]

\* "a in b" for two names: the empty name is in every name, and no name of a
\* broad field is part of another
IsPartOf(a, b) == a = "" \/ a = b

\* sorted(fields, key=lambda f: value[f], reverse=True): descending and
\* stable, equal values keep the order of fields
SortedDescending(fields, value) ==
    LET Before(i, j) ==
            \/ value[fields[i]] > value[fields[j]]
            \/ value[fields[i]] = value[fields[j]] /\ i < j
        Place(i) == 1 + Cardinality({j \in DOMAIN fields : Before(j, i)})
    IN  [p \in DOMAIN fields |-> fields[CHOOSE i \in DOMAIN fields : Place(i) = p]]

\* {f: i + 1 for i, f in enumerate(sorted_fields)}
RankMap(sorted_fields) ==
    [f \in Range(sorted_fields) |->
        CHOOSE i \in DOMAIN sorted_fields : sorted_fields[i] = f]

\* a variant of SortByCombinedRank that leaves the list as it was built
SortByCombinedRank_omitted(field_rankings) == field_rankings

\* field_rankings.sort(key=lambda x: x["combined_rank"]): ascending and stable
SortByCombinedRank(field_rankings) ==
    LET Before(i, j) ==
            \/ field_rankings[i].combined_rank < field_rankings[j].combined_rank
            \/ /\ field_rankings[i].combined_rank = field_rankings[j].combined_rank
               /\ i < j
        Place(i) == 1 + Cardinality({j \in DOMAIN field_rankings : Before(j, i)})
    IN  [p \in DOMAIN field_rankings |->
            field_rankings[CHOOSE i \in DOMAIN field_rankings : Place(i) = p]]

\* quartile_label(rank), lines 611-620
quartile_label(rank, total_fields, q1_threshold, q4_threshold) ==
    IF rank = None THEN "N/A"
    ELSE IF Val(rank) <= q1_threshold THEN "Top quartile"
    ELSE IF Val(rank) <= total_fields \div 2 THEN "Second quartile"
    ELSE IF Val(rank) <= q4_threshold THEN "Third quartile"
    ELSE "Bottom quartile"

\* the combined rankings, the user's ranks, the quartiles and the returned
\* record, lines 584-646
CompetitivenessRecord(user_field, all_fields, emp_map, inc_map, emp_rank_map, inc_rank_map) ==
    LET total_fields == Len(all_fields)
        field_rankings ==
            [i \in DOMAIN all_fields |->
                [field |-> all_fields[i],
                 employment_rate |-> GetOpt(emp_map, all_fields[i]),
                 median_income |-> GetOpt(inc_map, all_fields[i]),
                 emp_rank |-> Get(emp_rank_map, all_fields[i], total_fields),
                 inc_rank |-> Get(inc_rank_map, all_fields[i], total_fields),
                 combined_rank |-> Get(emp_rank_map, all_fields[i], total_fields)
                                   + Get(inc_rank_map, all_fields[i], total_fields)]]
        user == FirstIdx(all_fields,
                         LAMBDA f : IsPartOf(user_field, f) \/ IsPartOf(f, user_field))
        user_emp_rank == IF user = 0 THEN None ELSE GetOpt(emp_rank_map, all_fields[user])
        user_inc_rank == IF user = 0 THEN None ELSE GetOpt(inc_rank_map, all_fields[user])
        q1_threshold == Max(1, total_fields \div 4)
        q4_threshold == total_fields - q1_threshold
        \* "if rank and ...": None and 0 are falsy
        Ranked(rank) == rank # None /\ Val(rank) # 0
    IN  [employment_rank |-> user_emp_rank,
         income_rank |-> user_inc_rank,
         total_fields |-> total_fields,
         emp_quartile |-> quartile_label(user_emp_rank, total_fields, q1_threshold, q4_threshold),
         inc_quartile |-> quartile_label(user_inc_rank, total_fields, q1_threshold, q4_threshold),
         strengths |->
             (IF Ranked(user_emp_rank) /\ Val(user_emp_rank) <= q1_threshold
              THEN <<"High employment rate">> ELSE <<>>)
             \o (IF Ranked(user_inc_rank) /\ Val(user_inc_rank) <= q1_threshold
                 THEN <<"High income">> ELSE <<>>),
         weaknesses |->
             (IF Ranked(user_emp_rank) /\ Val(user_emp_rank) > q4_threshold
              THEN <<"Low employment rate">> ELSE <<>>)
             \o (IF Ranked(user_inc_rank) /\ Val(user_inc_rank) > q4_threshold
                 THEN <<"Low income relative to other fields">> ELSE <<>>),
         field_rankings |-> SortByCombinedRank(field_rankings)]

\* the two rankings over all fields, lines 569-581: a field that a list lacks
\* is sorted with the value 0
CompetitivenessOf(user_field, all_fields, emp_map, inc_map) ==
    CompetitivenessRecord(
        user_field, all_fields, emp_map, inc_map,
        RankMap(SortedDescending(all_fields, [f \in Range(all_fields) |-> Get(emp_map, f, 0)])),
        RankMap(SortedDescending(all_fields, [f \in Range(all_fields) |-> Get(inc_map, f, 0)])))

\* compute_field_competitiveness(page2_data)
compute_field_competitiveness(page2_data) ==
    LET labour == Get(page2_data, "labour_force", EmptyDict)
        income == Get(page2_data, "income", EmptyDict)
        user_field == Get(labour, "user_field", "")
        comparison == Get(labour, "comparison", <<>>)
        ranking == Get(income, "ranking", <<>>)
    IN  IF comparison = <<>> /\ ranking = <<>>
        THEN [error |-> "Insufficient data for competitiveness analysis"]
        ELSE CompetitivenessOf(
                 user_field,
                 SortedNames(Keys(comparison, "field") \cup Keys(ranking, "field")),
                 DictOf(comparison, "field", "employment_rate"),
                 DictOf(ranking, "field", "median_income"))

\* _SHORT_NAMES.get(f, f[:20]), lines 651-663, for the eleven broad fields
_SHORT_NAMES(f) ==
    CASE f = "Education" -> "Education"
      [] f = "Visual and performing arts, and communications technologies" -> "Arts & Media"
      [] f = "Humanities" -> "Humanities"
      [] f = "Social and behavioural sciences and law" -> "Social Sci & Law"
      [] f = "Business, management and public administration" -> "Business"
      [] f = "Physical and life sciences and technologies" -> "Life Sciences"
      [] f = "Mathematics, computer and information sciences" -> "Math & CS"
      [] f = "Architecture, engineering, and related trades" -> "Engineering"
      [] f = "Agriculture, natural resources and conservation" -> "Agriculture"
      [] f = "Health and related fields" -> "Health"
      [] f = "Personal, protective and transportation services" -> "Services"

\* short_name(name), lines 767-772, for names without a CIP prefix: name[:25]
short_name(f) ==
    CASE f = "Education" -> "Education"
      [] f = "Visual and performing arts, and communications technologies" -> "Visual and performing art"
      [] f = "Humanities" -> "Humanities"
      [] f = "Social and behavioural sciences and law" -> "Social and behavioural sc"
      [] f = "Business, management and public administration" -> "Business, management and "
      [] f = "Physical and life sciences and technologies" -> "Physical and life science"
      [] f = "Mathematics, computer and information sciences" -> "Mathematics, computer and"
      [] f = "Architecture, engineering, and related trades" -> "Architecture, engineering"
      [] f = "Agriculture, natural resources and conservation" -> "Agriculture, natural reso"
      [] f = "Health and related fields" -> "Health and related fields"
      [] f = "Personal, protective and transportation services" -> "Personal, protective and "

\* sorted(values) for numbers: ascending, equal values in their order
SortedAscending(values) ==
    LET Before(i, j) == values[i] < values[j] \/ (values[i] = values[j] /\ i < j)
        Place(i) == 1 + Cardinality({j \in DOMAIN values : Before(j, i)})
    IN  [p \in DOMAIN values |-> values[CHOOSE i \in DOMAIN values : Place(i) = p]]

\* np.median(values) of a non-empty list of whole numbers
Median(values) ==
    LET n == Len(values)
        Middle(sorted) ==
            IF n % 2 = 1 THEN I(sorted[(n + 1) \div 2])
            ELSE R(sorted[n \div 2] + sorted[n \div 2 + 1], 2)
    IN  CHOOSE m \in {Middle(sorted) : sorted \in {SortedAscending(values)}} : TRUE

MinOf(values) == CHOOSE v \in Range(values) : \A w \in Range(values) : v <= w
MaxOf(values) == CHOOSE v \in Range(values) : \A w \in Range(values) : v >= w

\* a variant of UserQuadrant whose high side excludes the midpoint
UserQuadrant_exclusive(fields, emp_midpoint, inc_midpoint) ==
    LET user == FirstIdx(fields, LAMBDA f : f.is_user)
        high_emp == RGt(Tenths(fields[user].employment_rate), emp_midpoint)
        high_inc == RGt(I(fields[user].median_income), inc_midpoint)
    IN  IF user = 0 THEN "N/A"
        ELSE IF high_emp /\ high_inc THEN "High Employability + High Income"
        ELSE IF ~high_emp /\ high_inc THEN "Competitive/Niche + High Income"
        ELSE IF high_emp /\ ~high_inc THEN "Accessible + Lower Income"
        ELSE "Challenging + Lower Income"

\* the user's quadrant, lines 711-726 and 790-805: that of the first entry
\* flagged is_user, against the medians as computed (not rounded)
UserQuadrant(fields, emp_midpoint, inc_midpoint) ==
    LET user == FirstIdx(fields, LAMBDA f : f.is_user)
        high_emp == RGe(Tenths(fields[user].employment_rate), emp_midpoint)
        high_inc == RGe(I(fields[user].median_income), inc_midpoint)
    IN  IF user = 0 THEN "N/A"
        ELSE IF high_emp /\ high_inc THEN "High Employability + High Income"
        ELSE IF ~high_emp /\ high_inc THEN "Competitive/Niche + High Income"
        ELSE IF high_emp /\ ~high_inc THEN "Accessible + Lower Income"
        ELSE "Challenging + Lower Income"

\* the midpoints, the axis ranges and the user's quadrant of a non-empty list
\* of entries, lines 705-738 and 784-817; rates are held in tenths
QuadrantRecord(fields, emp_midpoint, inc_midpoint) ==
    LET all_emp == [i \in DOMAIN fields |-> fields[i].employment_rate]
        all_inc == [i \in DOMAIN fields |-> fields[i].median_income]
    IN  [fields |-> fields,
         emp_midpoint |-> Round(emp_midpoint, 1),
         inc_midpoint |-> Round(inc_midpoint, 0),
         emp_min |-> Round(Tenths(MinOf(all_emp) - 20), 1),
         emp_max |-> Round(Tenths(MaxOf(all_emp) + 20), 1),
         inc_min |-> Round(R(MinOf(all_inc) * 9, 10), 0),
         inc_max |-> Round(R(MaxOf(all_inc) * 11, 10), 0),
         user_quadrant |-> UserQuadrant(fields, emp_midpoint, inc_midpoint)]

\* np.median of the two metrics over the entries, then the record
QuadrantOf(fields) ==
    QuadrantRecord(
        fields,
        RDiv(Median([i \in DOMAIN fields |-> fields[i].employment_rate]), I(10)),
        Median([i \in DOMAIN fields |-> fields[i].median_income]))

\* the entries of the peer-field variant, lines 696-705: one for each field
\* that has both an employment rate and an income
CareerEntries(common_fields, emp_map, inc_map, user_field) ==
    [i \in DOMAIN common_fields |->
        [field |-> common_fields[i],
         short_name |-> _SHORT_NAMES(common_fields[i]),
         employment_rate |-> emp_map[common_fields[i]],
         median_income |-> inc_map[common_fields[i]],
         is_user |-> \/ IsPartOf(user_field, common_fields[i])
                     \/ IsPartOf(common_fields[i], user_field)]]

\* compute_career_quadrant(page2_data)
compute_career_quadrant(page2_data) ==
    LET labour == Get(page2_data, "labour_force", EmptyDict)
        income == Get(page2_data, "income", EmptyDict)
        user_field == Get(labour, "user_field", "")
        comparison == Get(labour, "comparison", <<>>)
        ranking == Get(income, "ranking", <<>>)
        common_fields == SortedNames(Keys(comparison, "field") \cap Keys(ranking, "field"))
    IN  IF comparison = <<>> \/ ranking = <<>>
        THEN [error |-> "Insufficient data for career quadrant analysis"]
        ELSE IF Len(common_fields) < 3
        THEN [error |-> "Too few fields with both employment and income data"]
        ELSE QuadrantOf(CareerEntries(common_fields,
                                      DictOf(comparison, "field", "employment_rate"),
                                      DictOf(ranking, "field", "median_income"),
                                      user_field))

\* the entries of the subfield variant, lines 775-788: one for each subfield
SubfieldEntries(subfields, user_subfield) ==
    [i \in DOMAIN subfields |->
        [field |-> subfields[i].name,
         short_name |-> short_name(subfields[i].name),
         employment_rate |-> subfields[i].employment_rate,
         median_income |-> subfields[i].median_income,
         emp_exact |-> Get(subfields[i], "emp_exact", TRUE),
         is_user |-> /\ user_subfield # None
                     /\ \/ Val(user_subfield) = subfields[i].name
                        \/ IsPartOf(subfields[i].name, Val(user_subfield))
                        \/ IsPartOf(Val(user_subfield), subfields[i].name)]]

\* the result of the subfield variant over its entries, lines 784-820
SubfieldQuadrantOf(fields, broad_field) ==
    QuadrantOf(fields)
    @@ [broad_field |-> broad_field,
        has_estimated_emp |-> \E i \in DOMAIN fields : ~fields[i].emp_exact]

\* a variant of compute_subfield_quadrant that accepts a single subfield
compute_subfield_quadrant_single(page2_data) ==
    LET sf_data == Get(page2_data, "subfield_comparison", EmptyDict)
        subfields == Get(sf_data, "subfields", <<>>)
    IN  IF Len(subfields) < 1
        THEN [error |-> <<"Insufficient subfield data for ", Get(sf_data, "broad_field", ""),
                          " (need at least 2 subfields)">>]
        ELSE SubfieldQuadrantOf(
                 SubfieldEntries(subfields, Get(sf_data, "user_subfield", None)),
                 Get(sf_data, "broad_field", ""))

\* compute_subfield_quadrant(page2_data)
compute_subfield_quadrant(page2_data) ==
    LET sf_data == Get(page2_data, "subfield_comparison", EmptyDict)
        subfields == Get(sf_data, "subfields", <<>>)
        user_subfield == Get(sf_data, "user_subfield", None)
        broad_field == Get(sf_data, "broad_field", "")
    IN  IF Len(subfields) < 2
        THEN [error |-> <<"Insufficient subfield data for ", broad_field,
                          " (need at least 2 subfields)">>]
        ELSE SubfieldQuadrantOf(SubfieldEntries(subfields, user_subfield), broad_field)

-----------------------------------------------------------------------------
(* Calls.  A call of an analysis is the dict it returns together with the   *)
(* state of its argument afterwards: none of the nine functions assigns to  *)
(* page2_data or to an object reached from it (every list they append to or *)
(* sort is one they built themselves), so the argument comes back as given. *)

call_composite_score(page2_data) ==
    [ret |-> compute_composite_score(page2_data), arg |-> page2_data]

call_unemployment_forecast(page2_data) ==
    [ret |-> compute_unemployment_forecast(page2_data), arg |-> page2_data]

call_vacancy_forecast(page2_data) ==
    [ret |-> compute_vacancy_forecast(page2_data), arg |-> page2_data]

call_income_projection(page2_data) ==
    [ret |-> compute_income_projection(page2_data), arg |-> page2_data]

\* sorted(seq) by the point's value, stable (insertion sort)
SortByValue(series) ==
    LET Insert(s, x) ==
            LET k == Cardinality({i \in DOMAIN s : s[i].value <= x.value})
            IN  SubSeq(s, 1, k) \o <<x>> \o SubSeq(s, k + 1, Len(s))
        F[i \in 0..Len(series)] == IF i = 0 THEN <<>> ELSE Insert(F[i - 1], series[i])
    IN  F[Len(series)]

\* a variant of the risk assessment call that sorts every unemployment
\* series of the snapshot in place by value, as series.sort(...) would
call_risk_assessment_sorting(page2_data) ==
    [ret |-> compute_risk_assessment(page2_data),
     arg |-> IF "unemployment" \in DOMAIN page2_data
             THEN [page2_data EXCEPT !["unemployment"].trends =
                      [k \in DOMAIN @ |-> SortByValue(@[k])]]
             ELSE page2_data]

call_risk_assessment(page2_data) ==
    [ret |-> compute_risk_assessment(page2_data), arg |-> page2_data]

call_education_roi(page2_data) ==
    [ret |-> compute_education_roi(page2_data), arg |-> page2_data]

call_field_competitiveness(page2_data) ==
    [ret |-> compute_field_competitiveness(page2_data), arg |-> page2_data]

\* a variant of the career quadrant call that narrows the employment
\* comparison of the snapshot in place to the fields that also have an income
call_career_quadrant_narrowing(page2_data) ==
    [ret |-> compute_career_quadrant(page2_data),
     arg |-> IF "labour_force" \in DOMAIN page2_data
             THEN [page2_data EXCEPT !["labour_force"].comparison =
                      Filter(@, LAMBDA c :
                          c.field \in Keys(Get(Get(page2_data, "income", EmptyDict),
                                               "ranking", <<>>), "field"))]
             ELSE page2_data]

call_career_quadrant(page2_data) ==
    [ret |-> compute_career_quadrant(page2_data), arg |-> page2_data]

call_subfield_quadrant(page2_data) ==
    [ret |-> compute_subfield_quadrant(page2_data), arg |-> page2_data]

\* the keys of the dict literal of run_all_analyses, in its order
AnalysisNames ==
    <<"composite_score", "unemployment_forecast", "vacancy_forecast",
      "income_projection", "risk_assessment", "education_roi",
      "field_competitiveness", "career_quadrant", "subfield_quadrant">>

\* the call behind each key
CallOf(name, page2_data) ==
    CASE name = "composite_score" -> call_composite_score(page2_data)
      [] name = "unemployment_forecast" -> call_unemployment_forecast(page2_data)
      [] name = "vacancy_forecast" -> call_vacancy_forecast(page2_data)
      [] name = "income_projection" -> call_income_projection(page2_data)
      [] name = "risk_assessment" -> call_risk_assessment(page2_data)
      [] name = "education_roi" -> call_education_roi(page2_data)
      [] name = "field_competitiveness" -> call_field_competitiveness(page2_data)
      [] name = "career_quadrant" -> call_career_quadrant(page2_data)
      [] name = "subfield_quadrant" -> call_subfield_quadrant(page2_data)

\* a result dict is an Error when it carries the key "error"; a call that
\* raises is written [raise |-> exception]
IsError(r) == "error" \in DOMAIN r
Raises(r) == "raise" \in DOMAIN r
IsSuccess(r) == ~IsError(r) /\ ~Raises(r)

\* one entry of the dict literal is evaluated: the call is made on the
\* snapshot as it is now and its result stored under its key; an exception
\* ends the run with no mapping
Evaluate(name, c) ==
    /\ outcome = "running"
    /\ name \notin DOMAIN results
    /\ snapshot' = c.arg
    /\ IF Raises(c.ret)
       THEN outcome' = "raised" /\ UNCHANGED results
       ELSE results' = (results @@ (name :> c.ret)) /\ UNCHANGED outcome
    /\ UNCHANGED given

\* Python evaluates the entries of a dict literal from first to last
InTurn(name) ==
    \A i \in DOMAIN AnalysisNames :
        AnalysisNames[i] = name =>
            \A j \in 1..(i - 1) : AnalysisNames[j] \in DOMAIN results

RunCompositeScore == Evaluate("composite_score", call_composite_score(snapshot))
RunUnemploymentForecast == Evaluate("unemployment_forecast", call_unemployment_forecast(snapshot))
RunVacancyForecast == Evaluate("vacancy_forecast", call_vacancy_forecast(snapshot))
RunIncomeProjection == Evaluate("income_projection", call_income_projection(snapshot))
RunRiskAssessment == Evaluate("risk_assessment", call_risk_assessment(snapshot))
RunEducationRoi == Evaluate("education_roi", call_education_roi(snapshot))
RunFieldCompetitiveness == Evaluate("field_competitiveness", call_field_competitiveness(snapshot))
RunCareerQuadrant == Evaluate("career_quadrant", call_career_quadrant(snapshot))
RunSubfieldQuadrant == Evaluate("subfield_quadrant", call_subfield_quadrant(snapshot))

\* the dict is complete and returned to the caller
Return ==
    /\ outcome = "running"
    /\ DOMAIN results = Range(AnalysisNames)
    /\ outcome' = "returned"
    /\ UNCHANGED <<given, snapshot, results>>

\* run_all_analyses(page2_data)
Next ==
    \/ InTurn("composite_score") /\ RunCompositeScore
    \/ InTurn("unemployment_forecast") /\ RunUnemploymentForecast
    \/ InTurn("vacancy_forecast") /\ RunVacancyForecast
    \/ InTurn("income_projection") /\ RunIncomeProjection
    \/ InTurn("risk_assessment") /\ RunRiskAssessment
    \/ InTurn("education_roi") /\ RunEducationRoi
    \/ InTurn("field_competitiveness") /\ RunFieldCompetitiveness
    \/ InTurn("career_quadrant") /\ RunCareerQuadrant
    \/ InTurn("subfield_quadrant") /\ RunSubfieldQuadrant
    \/ Return

\* the nine calls made over the same snapshot in any order
NextAnyOrder ==
    \/ RunCompositeScore
    \/ RunUnemploymentForecast
    \/ RunVacancyForecast
    \/ RunIncomeProjection
    \/ RunRiskAssessment
    \/ RunEducationRoi
    \/ RunFieldCompetitiveness
    \/ RunCareerQuadrant
    \/ RunSubfieldQuadrant
    \/ Return

\* the state in which run_all_analyses is entered with snapshot s
Entered(s) ==
    /\ given = s
    /\ snapshot = s
    /\ results = EmptyDict
    /\ outcome = "running"

-----------------------------------------------------------------------------
(* Survey snapshots, shaped as the retrieval layer (src/processors.py)      *)
(* builds them: a section is absent or complete, comparison lists are       *)
(* sorted ascending by their value, a series holds no missing value, and    *)
(* the unemployment trends hold only non-empty series.                      *)

MaxFields == 4      \* longest comparison / ranking / subfield list
MaxPoints == 5      \* longest time series
MaxGrowth == 520    \* largest growth_pct, in tenths of a percent

SectionNames ==
    {"labour_force", "income", "unemployment", "job_vacancies",
     "graduate_outcomes", "subfield_comparison"}

\* the eleven broad fields and sample values for them, ascending
FieldList ==
    <<"Education",
      "Visual and performing arts, and communications technologies",
      "Humanities",
      "Social and behavioural sciences and law",
      "Business, management and public administration",
      "Physical and life sciences and technologies",
      "Mathematics, computer and information sciences",
      "Architecture, engineering, and related trades",
      "Agriculture, natural resources and conservation",
      "Health and related fields",
      "Personal, protective and transportation services">>

SampleEmpRate == <<712, 745, 745, 801, 833, 850, 862, 870, 881, 893, 905>>
SampleIncome == <<41000, 45000, 52000, 52000, 61000, 70000, 72000, 75000, 80000, 84000, 90000>>
SampleEduIncome == <<38000, 45000, 50000, 65000, 60000, 80000>>
SampleRates == <<60, 95, 70, 55, 50, 52, 58, 61>>
SampleVacancies == <<Some(3), Some(4), None, Some(6), Some(5), Some(8), Some(7), Some(9)>>
ZeroStartVacancies == <<Some(0), Some(0), Some(5), Some(2), Some(4), Some(3), Some(1), Some(2)>>

Prefix(s, k) == IF k = 0 THEN <<>> ELSE SubSeq(s, 1, k)
Least(a, b) == IF a <= b THEN a ELSE b

\* the period labels the retrieval layer attaches
YearLabel(i) == ToStr(2018 + i)
QuarterLabel(i) == ToStr(2018 + i) \o <<"-", "0", "1">>

Series(vals) ==
    IF vals = <<>> THEN <<>>
    ELSE [i \in 1..Len(vals) |-> [date |-> YearLabel(i), value |-> vals[i]]]

VacancyTrends(vals) ==
    IF vals = <<>> THEN <<>>
    ELSE [i \in 1..Len(vals) |-> [date |-> QuarterLabel(i), vacancies |-> vals[i]]]

Comparison(k) ==
    IF k = 0 THEN <<>>
    ELSE [i \in 1..k |-> [field |-> FieldList[i], employment_rate |-> SampleEmpRate[i]]]

\* the income ranking covers the fields 2..k+1, so that with the comparison
\* 1..k some fields are in one list only
Ranking(k) ==
    IF k = 0 THEN <<>>
    ELSE [i \in 1..k |-> [field |-> FieldList[i + 1], median_income |-> SampleIncome[i + 1]]]

ByEducation(k) ==
    IF k = 0 THEN <<>>
    ELSE [i \in 1..Least(k, 6) |->
            [education |-> edu_order[i], median_income |-> SampleEduIncome[i]]]

Subfields(k) ==
    IF k = 0 THEN <<>>
    ELSE [i \in 1..k |->
            [name |-> FieldList[i], employment_rate |-> SampleEmpRate[i],
             median_income |-> SampleIncome[i], emp_exact |-> (i % 2 = 1)]]

\* summary of a section from optional values
Summary1(key, v) == IF v = None THEN EmptyDict ELSE (key :> Val(v))

LabourSection(k, rate) ==
    [summary |-> Summary1("employment_rate", rate),
     comparison |-> Comparison(k),
     user_field |-> FieldList[2]]

IncomeSection(k, median, average) ==
    [summary |-> Summary1("median_income", median) @@ Summary1("average_income", average),
     ranking |-> Ranking(k),
     by_education |-> ByEducation(k),
     user_field |-> FieldList[2]]

UnemploymentSection(vals) ==
    [trends |-> IF vals = <<>> THEN EmptyDict ELSE ("Bachelor's degree" :> Series(vals)),
     summary |-> EmptyDict,
     user_education |-> "Bachelor's degree"]

VacancySection(vals) ==
    [trends |-> VacancyTrends(vals), by_education |-> <<>>, summary |-> EmptyDict]

\* graduate outcomes: the summary carries growth_pct exactly when both
\* incomes are present and income_2yr > 0 (fetch_graduate_outcomes)
GraduateSection(inc2, inc5, growth) ==
    [summary |-> Summary1("income_2yr", inc2) @@ Summary1("income_5yr", inc5)
                 @@ Summary1("growth_pct", growth),
     comparison |-> << [field |-> FieldList[1], income_2yr |-> 39000],
                       [field |-> FieldList[2], income_2yr |-> 42000] >>]

SubfieldSection(k) ==
    [subfields |-> Subfields(k),
     broad_field |-> FieldList[2],
     user_subfield |-> IF k = 0 THEN None ELSE Some(FieldList[1])]

\* growth_pct as fetch_graduate_outcomes computes it, in tenths
GrowthOf(inc2, inc5) ==
    IF inc2 # None /\ inc5 # None /\ Val(inc2) > 0
    THEN Some(RoundHalfEven(RMul(R(Val(inc5) - Val(inc2), Val(inc2)), I(1000))))
    ELSE None

\* the sample graduate summaries: (income_2yr, income_5yr)
GraduatePairs ==
    << <<None, None>>, <<Some(40000), None>>, <<Some(0), Some(55000)>>,
       <<Some(40000), Some(55000)>> >>

\* a snapshot with the sections named in present, built from sample data of
\* the given sizes
SampleSnapshot(present, kf, kp, g) ==
    LET full ==
            [labour_force |-> LabourSection(kf, Some(SampleEmpRate[2])),
             income |-> IncomeSection(kf, Some(SampleIncome[2]), Some(48000)),
             unemployment |-> UnemploymentSection(Prefix(SampleRates, kp)),
             job_vacancies |-> VacancySection(Prefix(SampleVacancies, kp)),
             graduate_outcomes |->
                 GraduateSection(GraduatePairs[g][1], GraduatePairs[g][2],
                                 GrowthOf(GraduatePairs[g][1], GraduatePairs[g][2])),
             subfield_comparison |-> SubfieldSection(kf)]
    IN  [k \in present |-> full[k]]

\* run_all_analyses is entered with a snapshot of any shape and size
Init ==
    \E present \in SUBSET SectionNames, kf \in 0..MaxFields, kp \in 0..MaxPoints,
       g \in DOMAIN GraduatePairs :
        Entered(SampleSnapshot(present, kf, kp, g))

Spec == Init /\ [][Next]_vars

\* the nine analyses are called in any order over full-size snapshots that
\* lack at most two sections
InitAnyOrder ==
    \E present \in SUBSET SectionNames :
        /\ Cardinality(SectionNames \ present) <= 2
        /\ Entered(SampleSnapshot(present, MaxFields, MaxPoints, Len(GraduatePairs)))

SpecAnyOrder == InitAnyOrder /\ [][NextAnyOrder]_vars

-----------------------------------------------------------------------------
(* Snapshots for the composite score *)

RisingRates == <<30, 60, 95, 120, 150, 170, 190, 200>>
FallingRates == <<190, 170, 150, 120, 95, 60, 30, 20>>
FallingVacancies == <<Some(8), Some(6), Some(1), Some(1), Some(0), Some(2), Some(1), Some(1)>>

\* the user's employment rate and median income: missing, below every field
\* of the comparison, tied with one, above every field
RateChoices == {None, Some(700), Some(745), Some(950)}
IncomeChoices == {None, Some(40000), Some(52000), Some(95000)}

\* the smallest growth_pct of the sweep, in tenths of a percent
MinGrowth == 0 - 20

\* a section that is present (Some) or absent (None) under its key
Section(key, section) == IF section = None THEN EmptyDict ELSE (key :> Val(section))

\* a graduates section whose growth_pct is g tenths of a percent
GraduateWithGrowth(g) == GraduateSection(Some(10000), Some(10000 + 10 * g),
                                         GrowthOf(Some(10000), Some(10000 + 10 * g)))

\* every prefix of the sample series, and no section at all
SeriesChoices(families) ==
    {None} \cup {Some(Prefix(f, k)) : f \in families, k \in 0..MaxPoints}

\* the shapes of the unemployment and vacancy sections: every length of
\* every sample series, every size of the comparison lists
InitCompositeShapes ==
    \E kf \in 0..MaxFields,
       rates \in SeriesChoices({SampleRates, RisingRates, FallingRates}),
       vacancies \in SeriesChoices({SampleVacancies, ZeroStartVacancies, FallingVacancies}),
       grad \in {None, Some(GraduateWithGrowth(375))} :
        Entered(Section("labour_force", Some(LabourSection(kf, Some(SampleEmpRate[2]))))
                @@ Section("income", Some(IncomeSection(kf, Some(SampleIncome[2]), None)))
                @@ Section("unemployment",
                           IF rates = None THEN None ELSE Some(UnemploymentSection(Val(rates))))
                @@ Section("job_vacancies",
                           IF vacancies = None THEN None ELSE Some(VacancySection(Val(vacancies))))
                @@ Section("graduate_outcomes", grad))

\* a sweep of growth_pct under every position of the user in the two
\* comparison lists, so that the total crosses every grade threshold
InitCompositeSweep ==
    \E rate \in RateChoices, median \in IncomeChoices, g \in MinGrowth..MaxGrowth :
        Entered(Section("labour_force", Some(LabourSection(MaxFields, rate)))
                @@ Section("income", Some(IncomeSection(MaxFields, median, None)))
                @@ Section("graduate_outcomes", Some(GraduateWithGrowth(g))))

InitComposite == InitCompositeShapes \/ InitCompositeSweep

NextComposite == RunCompositeScore

SpecComposite == InitComposite /\ [][NextComposite]_vars

-----------------------------------------------------------------------------
(* Snapshots for the two forecasts *)

\* unemployment rates (tenths of a percent) and vacancy counts the series
\* are drawn from; the rates span less than 4.6 points, so that the squares
\* in RoundWithRoot at 4 decimals stay within 32-bit integers
RateValues == {0, 10, 25, 45}
CountValues == {None, Some(0), Some(2), Some(5)}

\* all series of at most n points over a set of values
SeriesUpTo(values, n) == UNION {[1..k -> values] : k \in 0..n}

\* the series 2019: 6.0, 2020: 9.5, 2021: 7.0, 2022: 5.5, 2023: 5.0
ScenarioRates == <<60, 95, 70, 55, 50>>

\* the linear series 10, 11, 12, 13, 14, 15
LinearRates == <<100, 110, 120, 130, 140, 150>>

\* vacancy counts in the hundreds, rising and falling by 150 a quarter
RisingVacancies == [i \in 1..6 |-> Some(150 * (i - 1))]
DecliningVacancies == [i \in 1..6 |-> Some(150 * (6 - i))]

InitUnemploymentSeries ==
    \E vals \in SeriesUpTo(RateValues, MaxPoints) \cup {ScenarioRates, LinearRates} :
        Entered(Section("unemployment", Some(UnemploymentSection(vals))))

InitVacancySeries ==
    \E vals \in SeriesUpTo(CountValues, MaxPoints)
                \cup {RisingVacancies, DecliningVacancies} :
        Entered(Section("job_vacancies", Some(VacancySection(vals))))

InitForecast == InitUnemploymentSeries \/ InitVacancySeries

NextForecast == RunUnemploymentForecast \/ RunVacancyForecast

SpecForecast == InitForecast /\ [][NextForecast]_vars

-----------------------------------------------------------------------------
(* Snapshots for the income projection *)

\* the anchor incomes fetch_graduate_outcomes delivers: absent, or a whole
\* amount (round(val, 0)); the amounts stay below 60000 so that round(b, 2)
\* stays within 32-bit integers
AnchorIncomes == {None, Some(0), Some(20000), Some(30000), Some(40000), Some(55000)}

\* the comparison lists of the graduates section: empty, with incomes, and
\* with an entry that has none
GraduateComparisons ==
    { <<>>,
      << [field |-> FieldList[1], income_2yr |-> 39000],
         [field |-> FieldList[2], income_2yr |-> 42000] >>,
      << [field |-> FieldList[1]],
         [field |-> FieldList[2], income_2yr |-> 42000] >> }

InitIncome ==
    \/ Entered(EmptyDict)
    \/ \E inc2 \in AnchorIncomes, inc5 \in AnchorIncomes, comparison \in GraduateComparisons :
        Entered("graduate_outcomes" :>
                    [summary |-> Summary1("income_2yr", inc2) @@ Summary1("income_5yr", inc5)
                                 @@ Summary1("growth_pct", GrowthOf(inc2, inc5)),
                     comparison |-> comparison])

NextIncome == RunIncomeProjection

SpecIncome == InitIncome /\ [][NextIncome]_vars

-----------------------------------------------------------------------------
(* Snapshots for the risk assessment *)

\* unemployment series (tenths of a percent): too short, of mean zero, one
\* per volatility grade, and alternating series a, b, a, b whose population
\* standard deviation is (b - a) / 2 and whose mean is (a + b) / 2, at and
\* next to the thresholds 10, 20, 30 and 40, and at and above the 25 of the
\* volatility risk factor
RiskSeries ==
    { <<>>, <<60, 95>>, <<0, 0, 0>>,
      <<60, 100, 60, 100>>, <<59, 99, 59, 99>>,
      <<50, 52, 58, 61>>, <<60, 70, 55, 50>>, <<60, 95, 70, 55, 50>>,
      <<40, 60, 95>>, <<0, 10, 45>>,
      <<90, 110, 90, 110>>, <<80, 120, 80, 120>>, <<70, 130, 70, 130>>,
      <<60, 140, 60, 140>>,
      <<181, 221, 181, 221>>, <<182, 222, 182, 222>> }

\* the user's median and average income: absent, zero, and amounts whose
\* ratio falls in every symmetry grade and on the thresholds
MedianChoices ==
    {None, Some(0), Some(30000), Some(31200), Some(33000), Some(36000),
     Some(38000), Some(38400), Some(40800), Some(42000), Some(45600), Some(46000), Some(50000)}
AverageChoices == {None, Some(0), Some(48000)}

InitRisk ==
    \E vals \in RiskSeries, median \in MedianChoices, average \in AverageChoices :
        Entered(Section("unemployment", Some(UnemploymentSection(vals)))
                @@ Section("income", Some(IncomeSection(0, median, average))))

NextRisk == RunRiskAssessment

SpecRisk == InitRisk /\ [][NextRisk]_vars

-----------------------------------------------------------------------------
(* Snapshots for the education ROI *)

\* median incomes by education level, in the order of edu_order: the sample
\* (a Master's below the Bachelor's), incomes that are all the same, and
\* incomes that start at zero and jump by more than twenty times the cost
\* of the level reached
FlatEduIncome == <<50000, 50000, 50000, 50000, 50000, 50000>>
SteepEduIncome == <<0, 400000, 410000, 400000, 420000, 800000>>
EduIncomeProfiles == {SampleEduIncome, FlatEduIncome, SteepEduIncome}

\* by_education as fetch_income builds it: the levels that have a value, in
\* the order of edu_levels
ByEducationOf(present, profile) ==
    LET kept == Filter([i \in 1..6 |-> i], LAMBDA i : i \in present)
    IN  [j \in 1..Len(kept) |->
            [education |-> edu_order[kept[j]], median_income |-> profile[kept[j]]]]

InitRoi ==
    \/ Entered(EmptyDict)
    \/ \E present \in SUBSET (1..6), profile \in EduIncomeProfiles :
        Entered("income" :> [summary |-> EmptyDict,
                             ranking |-> <<>>,
                             by_education |-> ByEducationOf(present, profile),
                             user_field |-> FieldList[2]])

NextRoi == RunEducationRoi

SpecRoi == InitRoi /\ [][NextRoi]_vars

-----------------------------------------------------------------------------
(* Snapshots for the field competitiveness *)

\* the comparison and the ranking over any fields among the first MaxFields,
\* each list ascending by its value, as fetch_labour_force and fetch_income
\* sort them
ComparisonOf(present) ==
    LET kept == Filter([i \in 1..MaxFields |-> i], LAMBDA i : i \in present)
    IN  [j \in 1..Len(kept) |->
            [field |-> FieldList[kept[j]], employment_rate |-> SampleEmpRate[kept[j]]]]

RankingOf(present) ==
    LET kept == Filter([i \in 1..MaxFields |-> i], LAMBDA i : i \in present)
    IN  [j \in 1..Len(kept) |->
            [field |-> FieldList[kept[j]], median_income |-> SampleIncome[kept[j]]]]

\* the k fields of lowest employment rate, given incomes in the opposite
\* order: the field of employment rank r has the income rank k + 1 - r or
\* next to it
MaxRanked == 10

ReversedRanking(k) ==
    [j \in 1..k |-> [field |-> FieldList[k + 1 - j], median_income |-> SampleIncome[j]]]

LabourWith(comparison, user) ==
    [summary |-> EmptyDict, comparison |-> comparison, user_field |-> FieldList[user]]

IncomeWith(ranking, user) ==
    [summary |-> EmptyDict, ranking |-> ranking, by_education |-> <<>>,
     user_field |-> FieldList[user]]

\* any two lists of up to MaxFields fields; the income section alone, the
\* labour force section not retrieved; two lists of up to MaxRanked fields
InitFields ==
    \/ \E in_comparison \in SUBSET (1..MaxFields), in_ranking \in SUBSET (1..MaxFields),
          user \in 1..2 :
           Entered("labour_force" :> LabourWith(ComparisonOf(in_comparison), user)
                   @@ "income" :> IncomeWith(RankingOf(in_ranking), user))
    \/ \E in_ranking \in SUBSET (1..MaxFields), user \in 1..2 :
           Entered("income" :> IncomeWith(RankingOf(in_ranking), user))
    \/ \E k \in 1..MaxRanked : \E user \in 1..k :
           Entered("labour_force" :> LabourWith(Comparison(k), user)
                   @@ "income" :> IncomeWith(ReversedRanking(k), user))

NextFields == RunFieldCompetitiveness

SpecFields == InitFields /\ [][NextFields]_vars

-----------------------------------------------------------------------------
(* Snapshots for the two quadrants *)

\* k subfields as fetch_subfield_comparison lists them (in the order of the
\* configuration, every entry with both metrics), incomes rising or falling
\* along the list
SubfieldsWith(k, reversed) ==
    [i \in 1..k |->
        [name |-> FieldList[i], employment_rate |-> SampleEmpRate[i],
         median_income |-> SampleIncome[IF reversed THEN k + 1 - i ELSE i],
         emp_exact |-> (i % 2 = 1)]]

SubfieldsSectionWith(subfields, user_subfield) ==
    [subfields |-> subfields, broad_field |-> FieldList[2], user_subfield |-> user_subfield]

\* any two lists of up to MaxFields fields; lists of up to MaxRanked fields
\* and as many subfields, incomes falling as employment rises; subfields
\* alone, with or without a subfield of the user
InitQuadrant ==
    \/ \E in_comparison \in SUBSET (1..MaxFields), in_ranking \in SUBSET (1..MaxFields),
          user \in 1..2 :
           Entered("labour_force" :> LabourWith(ComparisonOf(in_comparison), user)
                   @@ "income" :> IncomeWith(RankingOf(in_ranking), user))
    \/ \E k \in 1..MaxRanked : \E user \in 1..k :
           Entered("labour_force" :> LabourWith(Comparison(k), user)
                   @@ "income" :> IncomeWith(ReversedRanking(k), user)
                   @@ "subfield_comparison" :>
                          SubfieldsSectionWith(SubfieldsWith(k, TRUE), Some(FieldList[user])))
    \/ \E k \in 0..MaxFields, reversed \in BOOLEAN,
          user_subfield \in {None} \cup {Some(FieldList[i]) : i \in 1..MaxFields} :
           Entered("subfield_comparison" :>
                       SubfieldsSectionWith(SubfieldsWith(k, reversed), user_subfield))

NextQuadrant == RunCareerQuadrant \/ RunSubfieldQuadrant

SpecQuadrant == InitQuadrant /\ [][NextQuadrant]_vars

-----------------------------------------------------------------------------
(* Snapshots for the three readers of the unemployment series *)

\* the series of four education levels (tenths of a percent), each absent
\* from the mapping or present: fetch_unemployment_trends stores a level
\* only when its series is not empty
LevelSeriesChoices(name) ==
    CASE name = "Total, all education levels" -> {<<>>, <<50, 52, 58, 61>>, <<60, 95>>}
      [] name = "High school graduate" -> {<<>>, <<60, 70, 55, 50>>}
      [] name = "Bachelor's degree" -> {<<>>, <<40, 60, 95>>, <<0, 0, 0>>}
      [] name = "Above bachelor's degree" -> {<<>>, <<90, 110, 90, 110>>}

TrendEntry(name, vals) == IF vals = <<>> THEN EmptyDict ELSE (name :> Series(vals))

\* the education labels the user chooses from: levels 8, 4, 9, and 6, whose
\* series is in none of the mappings
EducationLabels ==
    {"Bachelor's degree", "High school diploma", "Master's degree",
     "College, CEGEP or other non-university certificate or diploma"}

UnemploymentWith(trends, education) ==
    [trends |-> trends, summary |-> EmptyDict, user_education |-> education]

\* every mapping of the four levels under every label; every series of up
\* to MaxPoints - 1 values under the label of its own level; no section
InitUnemployment ==
    \/ \E total \in LevelSeriesChoices("Total, all education levels"),
          school \in LevelSeriesChoices("High school graduate"),
          bachelor \in LevelSeriesChoices("Bachelor's degree"),
          above \in LevelSeriesChoices("Above bachelor's degree"),
          education \in EducationLabels :
           Entered("unemployment" :>
                       UnemploymentWith(TrendEntry("Total, all education levels", total)
                                        @@ TrendEntry("High school graduate", school)
                                        @@ TrendEntry("Bachelor's degree", bachelor)
                                        @@ TrendEntry("Above bachelor's degree", above),
                                        education))
    \/ \E vals \in SeriesUpTo(RateValues, MaxPoints - 1) :
           Entered("unemployment" :> UnemploymentSection(vals))
    \/ Entered(EmptyDict)

NextUnemployment == RunCompositeScore \/ RunUnemploymentForecast \/ RunRiskAssessment

SpecUnemployment == InitUnemployment /\ [][NextUnemployment]_vars

-----------------------------------------------------------------------------
(* Snapshots for the education ROI on any list of entries *)

\* compute_education_roi takes by_education as a list of entries and reads
\* the two keys of each: here every list of up to MaxEntries entries, which
\* may name a level twice or a level outside edu_order, as well as the
\* lists fetch_income builds
MaxEntries == 3
EntryLevels == {"High school diploma", "Bachelor's degree", "Master's degree", "Certificate"}
EntryIncomes == {40000, 55000}
EducationEntries == [education : EntryLevels, median_income : EntryIncomes]

InitRoiEntries ==
    \/ Entered(EmptyDict)
    \/ \E by_education \in UNION {[1..k -> EducationEntries] : k \in 0..MaxEntries} :
        Entered("income" :> [summary |-> EmptyDict,
                             ranking |-> <<>>,
                             by_education |-> by_education,
                             user_field |-> FieldList[2]])

NextRoiEntries == RunEducationRoi

SpecRoiEntries == InitRoiEntries /\ [][NextRoiEntries]_vars

-----------------------------------------------------------------------------
(* Snapshots without a user field *)

\* a labour force section whose user_field is the empty string, or that has
\* no such key: both analyses read it with labour.get("user_field", "")
LabourWithout(comparison, keyed) ==
    IF keyed THEN [summary |-> EmptyDict, comparison |-> comparison, user_field |-> ""]
    ELSE [summary |-> EmptyDict, comparison |-> comparison]

\* any two lists of up to MaxFields fields beside a labour force section
\* without a user field; the income section alone, the labour force section
\* not retrieved
InitNoUserField ==
    \/ \E in_comparison \in SUBSET (1..MaxFields), in_ranking \in SUBSET (1..MaxFields),
          keyed \in BOOLEAN :
           Entered("labour_force" :> LabourWithout(ComparisonOf(in_comparison), keyed)
                   @@ "income" :> IncomeWith(RankingOf(in_ranking), 1))
    \/ \E in_ranking \in SUBSET (1..MaxFields), user \in 1..2 :
           Entered("income" :> IncomeWith(RankingOf(in_ranking), user))

NextNoUserField == RunFieldCompetitiveness \/ RunCareerQuadrant

SpecNoUserField == InitNoUserField /\ [][NextNoUserField]_vars

-----------------------------------------------------------------------------
(* Properties *)

\* the analyses whose result in a finished run is an Error / a Success
Errors == {n \in DOMAIN results : IsError(results[n])}
Successes == {n \in DOMAIN results : IsSuccess(results[n])}

\* C1: run_all_analyses returns for every snapshot (sections empty or
\* absent included): no analysis raises, the returned mapping has exactly
\* the nine analysis names as keys, each entry is a Success or an Error, and
\* for the empty snapshot composite_score and risk_assessment are Success
\* and the other seven are Error
C1_NineEntriesAlways ==
    /\ outcome # "raised"
    /\ \A n \in DOMAIN results : IsError(results[n]) # IsSuccess(results[n])
    /\ outcome = "returned" =>
        /\ DOMAIN results = Range(AnalysisNames)
        /\ Cardinality(DOMAIN results) = 9
        /\ given = EmptyDict =>
            /\ Successes = {"composite_score", "risk_assessment"}
            /\ Errors = Range(AnalysisNames) \ {"composite_score", "risk_assessment"}

\* a finished run over a snapshot with sections, in which an early analysis
\* failed and later ones succeeded
C1_Witness ==
    /\ outcome = "returned"
    /\ given # EmptyDict
    /\ "unemployment_forecast" \in Errors
    /\ "income_projection" \in Errors
    /\ {"education_roi", "field_competitiveness", "subfield_quadrant"} \subseteq Successes

\* the finished run over the empty snapshot
C1_EmptyWitness == outcome = "returned" /\ given = EmptyDict

RECURSIVE RunInOrder(_, _)
RunInOrder(i, s) ==
    IF i > Len(AnalysisNames) THEN EmptyDict
    ELSE CHOOSE m \in {(AnalysisNames[i] :> c.ret) @@ RunInOrder(i + 1, c.arg) :
                          c \in {CallOf(AnalysisNames[i], s)}} : TRUE

CompositeDone == "composite_score" \in DOMAIN results
Composite == results["composite_score"]

InRange(x) == RGe(x, I(0)) /\ RLe(x, I(100))

\* the populations the snapshot offers to the percentile score, and values
\* below, inside and above them
Populations(s) ==
    {Map(Get(Get(s, "labour_force", EmptyDict), "comparison", <<>>),
         LAMBDA c : c.employment_rate),
     Map(Get(Get(s, "income", EmptyDict), "ranking", <<>>),
         LAMBDA r : r.median_income)}
ProbeValues(population) == Range(population) \cup {0, 1000000}

\* C4: every score is on the 0-100 scale: the percentile score of every
\* value in every population, each of the five composite components and the
\* composite total lie in [0, 100]
C4_ScoresInRange ==
    /\ \A population \in Populations(given) :
        \A v \in ProbeValues(population) :
            InRange(_percentile_score(Some(v), population))
    /\ CompositeDone =>
        /\ \A k \in Range(ComponentOrder) : InRange(Composite.components[k])
        /\ InRange(Composite.total)

\* the inputs a sub-score lacks
NoEmployment(s) ==
    LET labour == Get(s, "labour_force", EmptyDict)
    IN  \/ GetOpt(Get(labour, "summary", EmptyDict), "employment_rate") = None
        \/ Get(labour, "comparison", <<>>) = <<>>
NoIncome(s) ==
    LET income == Get(s, "income", EmptyDict)
    IN  \/ GetOpt(Get(income, "summary", EmptyDict), "median_income") = None
        \/ Get(income, "ranking", <<>>) = <<>>
ShortUnemployment(s) == Len(UserSeries(s)) < 3
CountedVacancies(s) ==
    LET trends == Get(Get(s, "job_vacancies", EmptyDict), "trends", <<>>)
    IN  [i \in 1..Cardinality({j \in DOMAIN trends : trends[j].vacancies # None}) |->
            Val(trends[CHOOSE j \in DOMAIN trends :
                        /\ trends[j].vacancies # None
                        /\ Cardinality({k \in 1..j : trends[k].vacancies # None}) = i].vacancies)]
ZeroEarlierHalf(s) ==
    \A i \in 1..(Len(CountedVacancies(s)) \div 2) : CountedVacancies(s)[i] = 0
NoDemand(s) ==
    \/ Len(Get(Get(s, "job_vacancies", EmptyDict), "trends", <<>>)) < 4
    \/ Len(CountedVacancies(s)) < 4
    \/ ZeroEarlierHalf(s)
NoGrowth(s) ==
    GetOpt(Get(Get(s, "graduate_outcomes", EmptyDict), "summary", EmptyDict), "growth_pct") = None

\* a composite score with the user's employment rate above every field of
\* the comparison (all n fields below it, over n - 1), the user's income
\* below every field, and a growth_pct above 50 percent
C4_Witness ==
    /\ CompositeDone
    /\ ~NoEmployment(given) /\ ~NoIncome(given) /\ ~NoGrowth(given)
    /\ Len(given["labour_force"].comparison) > 1
    /\ \A c \in Range(given["labour_force"].comparison) :
          c.employment_rate < given["labour_force"].summary.employment_rate
    /\ Composite.components["Employment"] = I(100)
    /\ Composite.components["Income"] = I(0)
    /\ given["graduate_outcomes"].summary.growth_pct > 500
    /\ Composite.components["Growth"] = I(100)

\* C5: compute_composite_score never returns an Error; a sub-score whose
\* input is missing or too short is exactly 50.0, whatever the other inputs
\* are; and when all five components are 50.0 the total is exactly 50.0
C5_NeutralDefaults ==
    CompositeDone =>
        /\ IsSuccess(Composite)
        /\ NoEmployment(given) => Composite.components["Employment"] = I(50)
        /\ NoIncome(given) => Composite.components["Income"] = I(50)
        /\ ShortUnemployment(given) => Composite.components["Trend"] = I(50)
        /\ NoDemand(given) => Composite.components["Demand"] = I(50)
        /\ NoGrowth(given) => Composite.components["Growth"] = I(50)
        /\ (\A k \in Range(ComponentOrder) : Composite.components[k] = I(50))
              => Composite.total = I(50)

\* a composite score with empty comparison lists, four vacancy counts whose
\* earlier half is all zero and no growth_pct, next to an unemployment series
\* that moves the Trend sub-score off 50
C5_Witness ==
    /\ CompositeDone
    /\ NoEmployment(given) /\ NoIncome(given) /\ NoGrowth(given)
    /\ Len(CountedVacancies(given)) >= 4 /\ ZeroEarlierHalf(given)
    /\ ~ShortUnemployment(given)
    /\ Composite.components["Trend"] # I(50)
    /\ Composite.components["Demand"] = I(50)

\* the reported total in tenths, an integer
TotalTenths == RMul(Composite.total, I(10)).n

GradeRank(g) == CASE g = "F" -> 0 [] g = "D" -> 1 [] g = "C" -> 2 [] g = "B" -> 3 [] g = "A" -> 4

\* the totals next to the thresholds, in tenths, with their grades
BoundaryGrades ==
    << <<799, "B">>, <<800, "A">>, <<649, "C">>, <<650, "B">>,
       <<499, "D">>, <<500, "C">>, <<349, "F">>, <<350, "D">> >>

\* C6: the grade is a function of the reported total: A iff total >= 80,
\* B iff 65 <= total < 80, C iff 50 <= total < 65, D iff 35 <= total < 50,
\* F iff total < 35; the totals 79.9, 80.0, 64.9, 65.0, 49.9, 50.0, 34.9, 35.0
\* grade as B, A, C, B, D, C, F, D; and a larger total never has a worse grade
C6_GradeOfTotal ==
    /\ \A i \in DOMAIN BoundaryGrades :
          _grade(R(BoundaryGrades[i][1], 10)) = BoundaryGrades[i][2]
    /\ CompositeDone =>
        /\ RMul(Composite.total, I(10)).d = 1
        /\ Composite.grade = "A" <=> TotalTenths >= 800
        /\ Composite.grade = "B" <=> (650 <= TotalTenths /\ TotalTenths < 800)
        /\ Composite.grade = "C" <=> (500 <= TotalTenths /\ TotalTenths < 650)
        /\ Composite.grade = "D" <=> (350 <= TotalTenths /\ TotalTenths < 500)
        /\ Composite.grade = "F" <=> TotalTenths < 350
        /\ \A i \in DOMAIN BoundaryGrades :
              /\ TotalTenths = BoundaryGrades[i][1] => Composite.grade = BoundaryGrades[i][2]
              /\ TotalTenths <= BoundaryGrades[i][1] =>
                    GradeRank(Composite.grade) <= GradeRank(BoundaryGrades[i][2])
              /\ TotalTenths >= BoundaryGrades[i][1] =>
                    GradeRank(Composite.grade) >= GradeRank(BoundaryGrades[i][2])

\* a composite score whose total is exactly 80.0, graded A
C6_Witness == CompositeDone /\ TotalTenths = 800 /\ Composite.grade = "A"

\* the composite scores with the other boundary totals
C6_At(tenths) == CompositeDone /\ TotalTenths = tenths

\* the two forecasts of the run, once computed
UnemploymentDone == "unemployment_forecast" \in DOMAIN results
UnemploymentForecast == results["unemployment_forecast"]
VacancyDone == "vacancy_forecast" \in DOMAIN results
VacancyForecast == results["vacancy_forecast"]

ForecastKeys ==
    {"dates", "values", "smoothed", "forecast_dates", "forecast_values",
     "upper_band", "lower_band", "slope", "std_residual", "interpretation"}

VacancyList(s) == Get(Get(s, "job_vacancies", EmptyDict), "trends", <<>>)

\* C7: the unemployment forecast is an Error exactly when the selected series
\* has fewer than 3 points, the vacancy forecast exactly when the list has
\* fewer than 4 points or fewer than 4 non-missing counts; otherwise each is
\* a Success with the series, the smoothed series of the same length, the
\* forecast points, the bands, slope, std_residual and interpretation
C7_ForecastPreconditions ==
    /\ UnemploymentDone =>
        /\ IsError(UnemploymentForecast) <=> Len(UserSeries(given)) < 3
        /\ ~IsError(UnemploymentForecast) =>
            /\ DOMAIN UnemploymentForecast = ForecastKeys
            /\ UnemploymentForecast.values =
                  [i \in DOMAIN UserSeries(given) |-> R(UserSeries(given)[i].value, 10)]
            /\ UnemploymentForecast.dates =
                  [i \in DOMAIN UserSeries(given) |-> UserSeries(given)[i].date]
            /\ Len(UnemploymentForecast.smoothed) = Len(UserSeries(given))
    /\ VacancyDone =>
        /\ IsError(VacancyForecast) <=>
              (Len(VacancyList(given)) < 4 \/ Len(CountedVacancies(given)) < 4)
        /\ ~IsError(VacancyForecast) =>
            /\ DOMAIN VacancyForecast = ForecastKeys
            /\ VacancyForecast.values =
                  [i \in DOMAIN CountedVacancies(given) |-> I(CountedVacancies(given)[i])]
            /\ Len(VacancyForecast.dates) = Len(CountedVacancies(given))
            /\ Len(VacancyForecast.smoothed) = Len(CountedVacancies(given))

\* a vacancy list of at least 4 points of which fewer than 4 carry a count,
\* answered with an Error
C7_Witness ==
    /\ VacancyDone
    /\ Len(VacancyList(given)) >= 4
    /\ Len(CountedVacancies(given)) < 4
    /\ IsError(VacancyForecast)

\* an unemployment series of exactly 3 points, answered with a Success
C7_ThreePoints ==
    UnemploymentDone /\ Len(UserSeries(given)) = 3 /\ IsSuccess(UnemploymentForecast)

Within(a, b, tol) == RLe(RSub(a, b), tol) /\ RLe(RSub(b, a), tol)

\* the band relations of a forecast whose values are rounded to the unit u
\* and whose std_residual is rounded to the unit v
BandsAround(f, u, v) ==
    /\ Len(f.forecast_values) = 3 /\ Len(f.upper_band) = 3 /\ Len(f.lower_band) = 3
    /\ \A i \in 1..3 :
        /\ RLe(I(0), f.lower_band[i])
        /\ RLe(f.lower_band[i], f.forecast_values[i])
        /\ RLe(f.forecast_values[i], f.upper_band[i])
        /\ Within(f.upper_band[i], RAdd(f.forecast_values[i], f.std_residual),
                  RAdd(RDiv(u, I(2)), RDiv(v, I(2))))
        /\ Within(f.lower_band[i],
                  RMax(I(0), RSub(f.forecast_values[i], f.std_residual)),
                  RAdd(RDiv(u, I(2)), RDiv(v, I(2))))

\* C8: a forecast that meets the precondition has exactly 3 forecast, 3 upper
\* and 3 lower values with 0 <= lower <= forecast <= upper, upper = forecast
\* + std_residual and lower = max(0, forecast - std_residual) up to the
\* rounding of the band (2 decimals, 0 for vacancies) and of the reported
\* std_residual (4 decimals, 2 for vacancies)
C8_BandsAroundForecast ==
    /\ (UnemploymentDone /\ ~IsError(UnemploymentForecast)) =>
          BandsAround(UnemploymentForecast, R(1, 100), R(1, 10000))
    /\ (VacancyDone /\ ~IsError(VacancyForecast)) =>
          BandsAround(VacancyForecast, I(1), R(1, 100))

\* an unemployment forecast whose third lower band is floored at 0 (the
\* forecast is below std_residual) while the first forecast is positive
C8_Witness ==
    /\ UnemploymentDone /\ IsSuccess(UnemploymentForecast)
    /\ RGt(UnemploymentForecast.forecast_values[1], I(0))
    /\ RGt(UnemploymentForecast.forecast_values[3], I(0))
    /\ RLt(UnemploymentForecast.forecast_values[3], UnemploymentForecast.std_residual)
    /\ UnemploymentForecast.lower_band[3] = I(0)

\* the snapshots of the two scenarios
ScenarioSnapshot == Section("unemployment", Some(UnemploymentSection(ScenarioRates)))
LinearSnapshot == Section("unemployment", Some(UnemploymentSection(LinearRates)))

\* C9: for the series 6.0, 9.5, 7.0, 5.5, 5.0 the forecast has exactly 3
\* forecast points, each >= 0, and a negative fitted slope; the slope of the
\* line through the smoothed values is -0.075, which is not below -0.1, so
\* the interpretation is "Stable - unemployment relatively flat" (the slope
\* of the raw values is -0.6)
C9_ScenarioStable ==
    (given = ScenarioSnapshot /\ UnemploymentDone) =>
        /\ IsSuccess(UnemploymentForecast)
        /\ UnemploymentForecast.slope = R(-75, 1000)
        /\ RLt(UnemploymentForecast.slope, I(0))
        /\ UnemploymentForecast.interpretation = "Stable - unemployment relatively flat"
        /\ Len(UnemploymentForecast.forecast_values) = 3
        /\ \A i \in 1..3 : RGe(UnemploymentForecast.forecast_values[i], I(0))
        /\ Polyfit(UnemploymentForecast.values).slope = R(-6, 10)

\* the forecast of the scenario series
C9_Witness == given = ScenarioSnapshot /\ UnemploymentDone /\ IsSuccess(UnemploymentForecast)

\* C9 as stated: the scenario is interpreted as "Improving"
C9_ScenarioImproving ==
    (given = ScenarioSnapshot /\ UnemploymentDone) =>
        /\ IsSuccess(UnemploymentForecast)
        /\ RLt(UnemploymentForecast.slope, I(0))
        /\ UnemploymentForecast.interpretation = "Improving - unemployment trending downward"
        /\ Len(UnemploymentForecast.forecast_values) = 3
        /\ \A i \in 1..3 : RGe(UnemploymentForecast.forecast_values[i], I(0))

\* C10: the linear series 10, 11, 12, 13, 14, 15 (raw slope 1.0) is smoothed
\* to 10, 10.5, 11, 12, 13, 14, linear from its third point only; the line
\* fitted to the smoothed values has slope 0.8143 and std_residual 0.2127
C10_LinearSmoothedFit ==
    (given = LinearSnapshot /\ UnemploymentDone) =>
        /\ IsSuccess(UnemploymentForecast)
        /\ Polyfit(UnemploymentForecast.values).slope = I(1)
        /\ UnemploymentForecast.smoothed = <<I(10), R(21, 2), I(11), I(12), I(13), I(14)>>
        /\ UnemploymentForecast.slope = R(8143, 10000)
        /\ UnemploymentForecast.std_residual = R(2127, 10000)

\* the forecast of the linear series, its second smoothed value off the line
C10_Witness ==
    /\ given = LinearSnapshot /\ UnemploymentDone
    /\ UnemploymentForecast.smoothed[2] # UnemploymentForecast.values[2]

\* C10 as stated: the fit of the smoothed linear series recovers the slope
\* 1.0 and a std_residual of 0, to within a hundredth
C10_LinearSlopeRecovered ==
    (given = LinearSnapshot /\ UnemploymentDone) =>
        /\ Within(UnemploymentForecast.slope, I(1), R(1, 100))
        /\ Within(UnemploymentForecast.std_residual, I(0), R(1, 100))

-----------------------------------------------------------------------------
(* Income projection *)

IncomeDone == "income_projection" \in DOMAIN results
Projection == results["income_projection"]

\* an anchor income of the snapshot the run was entered with
Anchor(key) ==
    GetOpt(Get(Get(given, "graduate_outcomes", EmptyDict), "summary", EmptyDict), key)

NoAnchors ==
    \/ Anchor("income_2yr") = None
    \/ Anchor("income_5yr") = None
    \/ Val(Anchor("income_2yr")) <= 0

\* C11: compute_income_projection returns an Error without a curve when
\* income_2yr is absent, when income_5yr is absent, or when income_2yr <= 0;
\* otherwise it returns a Success whose curve has exactly 15 points, for the
\* years 1..15 in order, and whose two headline points (years 10 and 15) equal
\* the curve's values at the years 10 and 15
C11_ProjectionPreconditions ==
    IncomeDone =>
        IF NoAnchors
        THEN IsError(Projection) /\ DOMAIN Projection = {"error"}
        ELSE /\ IsSuccess(Projection)
             /\ Projection.curve_years = [y \in 1..15 |-> y]
             /\ Len(Projection.curve_incomes) = 15
             /\ Len(Projection.projected_points) = 2
             /\ \A q \in 1..2 :
                    /\ Projection.projected_points[q].year = <<10, 15>>[q]
                    /\ Projection.projected_points[q].income
                           = Projection.curve_incomes[<<10, 15>>[q]]

\* a projection over a rising pair of anchors: the headline points differ
\* from each other and from the anchors
C11_Witness ==
    /\ IncomeDone
    /\ ~NoAnchors
    /\ Val(Anchor("income_2yr")) = 20000
    /\ Val(Anchor("income_5yr")) = 55000
    /\ RGt(Projection.projected_points[2].income, Projection.projected_points[1].income)
    /\ RGt(Projection.projected_points[1].income, I(55000))

\* C12: the curve is the exact two-point fit of income = a * ln(year) + b:
\* for every valid pair of anchors the curve's value at year 2 is income_2yr
\* and its value at year 5 is income_5yr, to the whole currency unit
C12_CurveThroughAnchors ==
    (IncomeDone /\ IsSuccess(Projection)) =>
        /\ Projection.curve_incomes[2] = I(Val(Anchor("income_2yr")))
        /\ Projection.curve_incomes[5] = I(Val(Anchor("income_5yr")))
        /\ Projection.data_points[1].income = Val(Anchor("income_2yr"))
        /\ Projection.data_points[2].income = Val(Anchor("income_5yr"))

\* the pair 40000 and 55000: the curve passes through both, with a slope
\* a = 15000 / (ln 5 - ln 2) between 16000 and 17000
C12_Witness ==
    /\ IncomeDone
    /\ IsSuccess(Projection)
    /\ Anchor("income_2yr") = Some(40000)
    /\ Anchor("income_5yr") = Some(55000)
    /\ Projection.curve_incomes[2] = I(40000)
    /\ Projection.curve_incomes[5] = I(55000)
    /\ RGt(Projection.formula.a, I(16000))
    /\ RLt(Projection.formula.a, I(17000))

-----------------------------------------------------------------------------
(* Risk assessment *)

RiskDone == "risk_assessment" \in DOMAIN results
Risk == results["risk_assessment"]

\* the values of the user's unemployment series in the snapshot the run was
\* entered with
GivenRates == Map(UserSeries(given), LAMBDA d : Tenths(d.value))

\* the series has a coefficient of variation: 3 points or more, mean above 0
HasCv == Len(GivenRates) >= 3 /\ RGt(Mean(GivenRates), I(0))

\* std / mean * 100 < t, decided on the squares: variance * 100^2 < t^2 * mean^2
CvBelow(t) ==
    RLt(RMul(Variance(GivenRates), I(10000)),
        RMul(I(t * t), RMul(Mean(GivenRates), Mean(GivenRates))))

\* C13: the volatility grade follows the coefficient of variation
\* CV = std / mean * 100 by the thresholds CV < 10 -> A, < 20 -> B, < 30 -> C,
\* < 40 -> D, else F
C13_GradeFollowsCv ==
    (RiskDone /\ HasCv) =>
        Risk.volatility_grade =
            (IF CvBelow(10) THEN "A"
             ELSE IF CvBelow(20) THEN "B"
             ELSE IF CvBelow(30) THEN "C"
             ELSE IF CvBelow(40) THEN "D"
             ELSE "F")

\* a series whose coefficient of variation, 9.9502, is below 10 and is
\* graded B, through its rounded value 10.0
C13_Witness ==
    /\ RiskDone
    /\ HasCv
    /\ CvBelow(10)
    /\ Risk.volatility_cv = Some(I(10))
    /\ Risk.volatility_grade = "B"

\* the user's incomes in the snapshot the run was entered with
GivenIncome(key) ==
    GetOpt(Get(Get(given, "income", EmptyDict), "summary", EmptyDict), key)

\* median_income and average_income are both present and average_income > 0
BothIncomes ==
    /\ GivenIncome("median_income") # None
    /\ GivenIncome("average_income") # None
    /\ Val(GivenIncome("average_income")) > 0

GivenRatio ==
    Round(R(Val(GivenIncome("median_income")), Val(GivenIncome("average_income"))), 3)

\* C14: whenever median_income and average_income are both present and
\* average_income > 0 (median_income = 0 included), income_symmetry is
\* median_income / average_income rounded to 3 decimals and symmetry_grade is
\* A for >= 0.95, B for >= 0.85, C for >= 0.75, D for >= 0.65, else F;
\* income_symmetry is None with the grade N/A only when a value is absent or
\* average_income <= 0
C14_SymmetryWheneverPresent ==
    RiskDone =>
        IF BothIncomes
        THEN /\ Risk.income_symmetry = Some(GivenRatio)
             /\ Risk.symmetry_grade =
                    (IF RGe(GivenRatio, R(95, 100)) THEN "A"
                     ELSE IF RGe(GivenRatio, R(85, 100)) THEN "B"
                     ELSE IF RGe(GivenRatio, R(75, 100)) THEN "C"
                     ELSE IF RGe(GivenRatio, R(65, 100)) THEN "D"
                     ELSE "F")
        ELSE Risk.income_symmetry = None /\ Risk.symmetry_grade = "N/A"

\* a median income of 0 beside an average income of 48000: both present, and
\* the symmetry is None with the grade N/A
C14_Witness ==
    /\ RiskDone
    /\ GivenIncome("median_income") = Some(0)
    /\ GivenIncome("average_income") = Some(48000)
    /\ Risk.income_symmetry = None
    /\ Risk.symmetry_grade = "N/A"

\* the scale A=4, B=3, C=2, D=1, F=0
Points(g) == CASE g = "A" -> 4 [] g = "B" -> 3 [] g = "C" -> 2 [] g = "D" -> 1 [] g = "F" -> 0

\* the letter of an average given as its double: >= 3.5 -> A, >= 2.5 -> B,
\* >= 1.5 -> C, >= 0.5 -> D, else F
LetterOfDouble(twice) ==
    IF twice >= 7 THEN "A" ELSE IF twice >= 5 THEN "B" ELSE IF twice >= 3 THEN "C"
    ELSE IF twice >= 1 THEN "D" ELSE "F"

\* C15: the overall grade is the average of the available sub-grades on the
\* scale A=4 .. F=0, mapped back with >= 3.5 -> A, >= 2.5 -> B, >= 1.5 -> C,
\* >= 0.5 -> D, else F; an N/A sub-grade is left out of the average: with one
\* sub-grade available the overall grade equals it, with both it is never
\* better than the better one nor worse than the worse one, with neither it
\* is N/A
C15_OverallGrade ==
    RiskDone =>
        LET v == Risk.volatility_grade
            s == Risk.symmetry_grade
            o == Risk.overall_grade
        IN  IF v = "N/A" /\ s = "N/A" THEN o = "N/A"
            ELSE IF s = "N/A" THEN o = v
            ELSE IF v = "N/A" THEN o = s
            ELSE /\ o = LetterOfDouble(Points(v) + Points(s))
                 /\ Points(o) <= Max(Points(v), Points(s))
                 /\ Points(o) >= Least(Points(v), Points(s))

\* an F for volatility beside an A for symmetry gives a C
C15_Witness ==
    /\ RiskDone
    /\ Risk.volatility_grade = "F"
    /\ Risk.symmetry_grade = "A"
    /\ Risk.overall_grade = "C"

-----------------------------------------------------------------------------
(* Education ROI *)

RoiDone == "education_roi" \in DOMAIN results
Roi == results["education_roi"]

\* by_education of the snapshot the run was entered with, and its levels
GivenByEducation == Get(Get(given, "income", EmptyDict), "by_education", <<>>)
PresentLevels == Keys(GivenByEducation, "education")
GivenEduIncome(level) ==
    GivenByEducation[CHOOSE i \in DOMAIN GivenByEducation :
                         GivenByEducation[i].education = level].median_income

\* the place of a level in the canonical order
Position(level) == CHOOSE k \in DOMAIN edu_order : edu_order[k] = level

\* C16 as stated: only pairs of levels that are consecutive in the canonical
\* six-level order and both present are evaluated; no entry pairs two present
\* levels across a missing one
C16_NoPairAcrossGap ==
    (RoiDone /\ IsSuccess(Roi)) =>
        \A i \in DOMAIN Roi.levels :
            /\ Roi.levels[i].from_level \in PresentLevels
            /\ Roi.levels[i].to_level \in PresentLevels
            /\ Position(Roi.levels[i].to_level) = Position(Roi.levels[i].from_level) + 1

\* C16: the present levels are taken in the canonical order and every two
\* that follow each other among the PRESENT levels are evaluated: n present
\* levels give n - 1 entries, each from a present level to the next present
\* level, so that the two levels around a missing one are paired
C16_PairsOfPresentLevels ==
    (RoiDone /\ IsSuccess(Roi)) =>
        /\ Len(Roi.levels) = Cardinality(PresentLevels) - 1
        /\ \A i \in DOMAIN Roi.levels :
            LET from == Roi.levels[i].from_level
                to == Roi.levels[i].to_level
            IN  /\ from \in PresentLevels
                /\ to \in PresentLevels
                /\ Position(from) < Position(to)
                /\ \A e \in PresentLevels :
                       ~(Position(from) < Position(e) /\ Position(e) < Position(to))
                /\ i > 1 => Roi.levels[i - 1].to_level = from

\* High school and Bachelor's present, the two levels between them missing:
\* the pair High school -> Bachelor's is reported
C16_Witness ==
    /\ RoiDone
    /\ IsSuccess(Roi)
    /\ PresentLevels = {"High school diploma", "Bachelor's degree", "Master's degree"}
    /\ Len(Roi.levels) = 2
    /\ Roi.levels[1].from_level = "High school diploma"
    /\ Roi.levels[1].to_level = "Bachelor's degree"

\* the entry of a pair as the claim computes it from the incomes and the two
\* cost tables
PremiumOf(l) == GivenEduIncome(l.to_level) - GivenEduIncome(l.from_level)
TotalCostOf(l) == EDUCATION_COSTS(l.to_level) * EDUCATION_DURATIONS(l.to_level)

\* C17: for every reported pair, with premium = to_income - from_income and
\* total_cost = annual_cost[to_level] * duration[to_level]: break_even_years
\* is None exactly when premium <= 0 and otherwise total_cost / premium
\* rounded to 1 decimal; premium_pct is premium / from_income * 100 rounded
\* to 1 decimal when from_income > 0 and 0 otherwise
C17_BreakEvenAndPremium ==
    (RoiDone /\ IsSuccess(Roi)) =>
        \A i \in DOMAIN Roi.levels :
            LET l == Roi.levels[i]
            IN  /\ l.income_premium = PremiumOf(l)
                /\ l.total_cost = TotalCostOf(l)
                /\ (l.break_even_years = None) <=> (PremiumOf(l) <= 0)
                /\ PremiumOf(l) > 0 =>
                       l.break_even_years = Some(Round(R(TotalCostOf(l), PremiumOf(l)), 1))
                /\ l.premium_pct =
                       (IF GivenEduIncome(l.from_level) > 0
                        THEN Round(RMul(R(PremiumOf(l), GivenEduIncome(l.from_level)), I(100)), 1)
                        ELSE I(0))

\* from 50000 to 65000 at 22000 a year for 4 years: 88000 / 15000 gives 5.9;
\* beside it the step to a Master's at 60000 has no break-even
C17_Witness ==
    /\ RoiDone
    /\ IsSuccess(Roi)
    /\ \E i \in DOMAIN Roi.levels :
           /\ Roi.levels[i].from_income = 50000
           /\ Roi.levels[i].to_income = 65000
           /\ Roi.levels[i].total_cost = 88000
           /\ Roi.levels[i].break_even_years = Some(R(59, 10))
    /\ \E i \in DOMAIN Roi.levels :
           /\ Roi.levels[i].income_premium < 0
           /\ Roi.levels[i].break_even_years = None

\* the entries that have a break-even, and those whose break-even is above 0
WithBreakEven == Filter(Roi.levels, LAMBDA l : l.break_even_years # None)
WithPositiveBreakEven ==
    Filter(Roi.levels, LAMBDA l : /\ l.break_even_years # None
                                  /\ RGt(Val(l.break_even_years), I(0)))

\* best is an entry of candidates with the least break-even
LeastOf(best, candidates) ==
    /\ best # None
    /\ \E i \in DOMAIN candidates : candidates[i] = Val(best)
    /\ \A i \in DOMAIN candidates :
           RLe(Val(Val(best).break_even_years), Val(candidates[i].break_even_years))

-----------------------------------------------------------------------------
(* Field competitiveness *)

FieldsDone == "field_competitiveness" \in DOMAIN results
Competitiveness == results["field_competitiveness"]

\* the two lists of the snapshot the run was entered with, and their fields
GivenComparison == Get(Get(given, "labour_force", EmptyDict), "comparison", <<>>)
GivenRanking == Get(Get(given, "income", EmptyDict), "ranking", <<>>)
ComparisonFields == Keys(GivenComparison, "field")
RankingFields == Keys(GivenRanking, "field")

\* C19: with an entry in labour_force.comparison or in income.ranking, every
\* field of the union of the two lists appears exactly once in
\* field_rankings, total_fields is the size of the union, every entry's
\* combined_rank is emp_rank + inc_rank, and field_rankings is ordered by
\* non-decreasing combined_rank; with both lists empty the result is an Error
C19_RankingsComplete ==
    FieldsDone =>
        IF GivenComparison = <<>> /\ GivenRanking = <<>>
        THEN IsError(Competitiveness)
        ELSE LET rows == Competitiveness.field_rankings
             IN  /\ IsSuccess(Competitiveness)
                 /\ \A f \in ComparisonFields \cup RankingFields :
                        Cardinality({i \in DOMAIN rows : rows[i].field = f}) = 1
                 /\ Len(rows) = Cardinality(ComparisonFields \cup RankingFields)
                 /\ Competitiveness.total_fields
                        = Cardinality(ComparisonFields \cup RankingFields)
                 /\ \A i \in DOMAIN rows :
                        rows[i].combined_rank = rows[i].emp_rank + rows[i].inc_rank
                 /\ \A i \in DOMAIN rows : \A j \in DOMAIN rows :
                        i < j => rows[i].combined_rank <= rows[j].combined_rank

\* four fields in the union, two of them in one list only, and the rows in
\* an order other than that of the names
C19_Witness ==
    /\ FieldsDone
    /\ IsSuccess(Competitiveness)
    /\ Competitiveness.total_fields = 4
    /\ Cardinality(ComparisonFields \cap RankingFields) = 2
    /\ Competitiveness.field_rankings[1].field = FieldList[4]
    /\ Competitiveness.field_rankings[1].combined_rank
           < Competitiveness.field_rankings[4].combined_rank

\* C20: a field that is in only one of the two lists is not excluded and has
\* the worst possible rank, total_fields, on the dimension it is missing
\* from; for every such field, also when several fields are missing from the
\* same dimension
C20_MissingRankedLast ==
    (FieldsDone /\ IsSuccess(Competitiveness)) =>
        \A f \in ComparisonFields \cup RankingFields :
            \E i \in DOMAIN Competitiveness.field_rankings :
                LET row == Competitiveness.field_rankings[i]
                IN  /\ row.field = f
                    /\ f \notin ComparisonFields => row.emp_rank = Competitiveness.total_fields
                    /\ f \notin RankingFields => row.inc_rank = Competitiveness.total_fields

\* two fields missing from the comparison: one has the employment rank
\* total_fields, the other total_fields - 1
C20_Witness ==
    /\ FieldsDone
    /\ IsSuccess(Competitiveness)
    /\ Cardinality(RankingFields \ ComparisonFields) = 2
    /\ \E i \in DOMAIN Competitiveness.field_rankings :
           LET row == Competitiveness.field_rankings[i]
           IN  /\ row.field \notin ComparisonFields
               /\ row.employment_rate = None
               /\ row.emp_rank = Competitiveness.total_fields - 1

\* whether a list of strengths or weaknesses names x
Listed(list, x) == \E i \in DOMAIN list : list[i] = x

\* the strengths and weaknesses are those of the two quartile labels
LabelsAgree ==
    /\ Listed(Competitiveness.strengths, "High employment rate")
           <=> Competitiveness.emp_quartile = "Top quartile"
    /\ Listed(Competitiveness.strengths, "High income")
           <=> Competitiveness.inc_quartile = "Top quartile"
    /\ Listed(Competitiveness.weaknesses, "Low employment rate")
           <=> Competitiveness.emp_quartile = "Bottom quartile"
    /\ Listed(Competitiveness.weaknesses, "Low income relative to other fields")
           <=> Competitiveness.inc_quartile = "Bottom quartile"
    /\ ~(/\ Listed(Competitiveness.strengths, "High employment rate")
          /\ Listed(Competitiveness.weaknesses, "Low employment rate"))
    /\ ~(/\ Listed(Competitiveness.strengths, "High income")
          /\ Listed(Competitiveness.weaknesses, "Low income relative to other fields"))

\* the label of a rank, from q1 = max(1, total // 4) and q4_start = total - q1
LabelOf(rank, total) ==
    LET q1 == IF total \div 4 >= 1 THEN total \div 4 ELSE 1
    IN  IF rank = None THEN "N/A"
        ELSE IF Val(rank) <= q1 THEN "Top quartile"
        ELSE IF Val(rank) <= total \div 2 THEN "Second quartile"
        ELSE IF Val(rank) <= total - q1 THEN "Third quartile"
        ELSE "Bottom quartile"

\* C21: for every total_fields >= 1 and every rank of the user, "High
\* employment rate" / "High income" is a strength exactly when the label of
\* that dimension is "Top quartile", "Low employment rate" / "Low income
\* relative to other fields" is a weakness exactly when the label is "Bottom
\* quartile", and no dimension is both a strength and a weakness
C21_StrengthsFollowLabels ==
    (FieldsDone /\ IsSuccess(Competitiveness)) =>
        /\ Competitiveness.emp_quartile
               = LabelOf(Competitiveness.employment_rank, Competitiveness.total_fields)
        /\ Competitiveness.inc_quartile
               = LabelOf(Competitiveness.income_rank, Competitiveness.total_fields)
        /\ LabelsAgree

\* the same from two fields on
C21_FromTwoFields ==
    (FieldsDone /\ IsSuccess(Competitiveness) /\ Competitiveness.total_fields >= 2) =>
        /\ Competitiveness.emp_quartile
               = LabelOf(Competitiveness.employment_rank, Competitiveness.total_fields)
        /\ Competitiveness.inc_quartile
               = LabelOf(Competitiveness.income_rank, Competitiveness.total_fields)
        /\ LabelsAgree

\* a single field, the user's: its employment rate is a strength and a
\* weakness at once
C21_Witness ==
    /\ FieldsDone
    /\ IsSuccess(Competitiveness)
    /\ Competitiveness.total_fields = 1
    /\ Competitiveness.emp_quartile = "Top quartile"
    /\ Listed(Competitiveness.strengths, "High employment rate")
    /\ Listed(Competitiveness.weaknesses, "Low employment rate")

\* the two quadrants of the run, once computed
CareerDone == "career_quadrant" \in DOMAIN results
CareerQuadrant == results["career_quadrant"]
SubfieldDone == "subfield_quadrant" \in DOMAIN results
SubfieldQuadrant == results["subfield_quadrant"]

\* the k-th smallest of a list of numbers, by counting
KthSmallest(values, k) ==
    CHOOSE v \in Range(values) :
        /\ Cardinality({i \in DOMAIN values : values[i] < v}) < k
        /\ Cardinality({i \in DOMAIN values : values[i] <= v}) >= k

\* x >= median(values), x = median(values): the median is the middle value,
\* or half the sum of the two middle values
AtLeastMedian(x, values) ==
    2 * x >= KthSmallest(values, (Len(values) + 1) \div 2)
             + KthSmallest(values, Len(values) \div 2 + 1)
AtMedian(x, values) ==
    2 * x = KthSmallest(values, (Len(values) + 1) \div 2)
            + KthSmallest(values, Len(values) \div 2 + 1)

Rates(q) == [i \in DOMAIN q.fields |-> q.fields[i].employment_rate]
Incomes(q) == [i \in DOMAIN q.fields |-> q.fields[i].median_income]
Flagged(q) == {i \in DOMAIN q.fields : q.fields[i].is_user}
FirstFlagged(q) == CHOOSE i \in Flagged(q) : \A j \in Flagged(q) : i <= j

\* the quadrant of a Success q is that of its flagged entry against the
\* medians of its entries, the high side including the median
QuadrantByMedians(q) ==
    /\ q.user_quadrant = "N/A" <=> Flagged(q) = {}
    /\ Flagged(q) # {} =>
           LET u == q.fields[FirstFlagged(q)]
               high_emp == AtLeastMedian(u.employment_rate, Rates(q))
               high_inc == AtLeastMedian(u.median_income, Incomes(q))
           IN  /\ q.user_quadrant = "High Employability + High Income"
                      <=> (high_emp /\ high_inc)
               /\ q.user_quadrant = "Competitive/Niche + High Income"
                      <=> (~high_emp /\ high_inc)
               /\ q.user_quadrant = "Accessible + Lower Income"
                      <=> (high_emp /\ ~high_inc)
               /\ q.user_quadrant = "Challenging + Lower Income"
                      <=> (~high_emp /\ ~high_inc)

\* C22: in both quadrant variants the user's quadrant is decided by inclusive
\* comparison with the medians of the eligible entries (High/High iff both
\* metrics are at or above their median, and so on for the other three), and
\* it is "N/A" iff no entry is flagged is_user
C22_QuadrantByMedians ==
    /\ (CareerDone /\ IsSuccess(CareerQuadrant)) => QuadrantByMedians(CareerQuadrant)
    /\ (SubfieldDone /\ IsSuccess(SubfieldQuadrant)) => QuadrantByMedians(SubfieldQuadrant)

AtBothMedians(q) ==
    /\ Flagged(q) # {}
    /\ AtMedian(q.fields[FirstFlagged(q)].employment_rate, Rates(q))
    /\ AtMedian(q.fields[FirstFlagged(q)].median_income, Incomes(q))
    /\ q.user_quadrant = "High Employability + High Income"

\* both variants computed over three entries, the user's exactly at both
\* medians and classified High/High
C22_Witness ==
    /\ CareerDone /\ IsSuccess(CareerQuadrant) /\ AtBothMedians(CareerQuadrant)
    /\ SubfieldDone /\ IsSuccess(SubfieldQuadrant) /\ AtBothMedians(SubfieldQuadrant)

\* the subfield entries of the snapshot the run was entered with
GivenSubfields == Get(Get(given, "subfield_comparison", EmptyDict), "subfields", <<>>)

\* every entry of a Success q carries the two metrics that the snapshot holds
\* for its field
CareerEntriesComplete(q) ==
    /\ {q.fields[i].field : i \in DOMAIN q.fields} = ComparisonFields \cap RankingFields
    /\ \A i \in DOMAIN q.fields :
           /\ \E c \in DOMAIN GivenComparison :
                  /\ GivenComparison[c].field = q.fields[i].field
                  /\ GivenComparison[c].employment_rate = q.fields[i].employment_rate
           /\ \E r \in DOMAIN GivenRanking :
                  /\ GivenRanking[r].field = q.fields[i].field
                  /\ GivenRanking[r].median_income = q.fields[i].median_income

SubfieldEntriesComplete(q) ==
    /\ Len(q.fields) = Len(GivenSubfields)
    /\ \A i \in DOMAIN q.fields :
           /\ q.fields[i].field = GivenSubfields[i].name
           /\ q.fields[i].employment_rate = GivenSubfields[i].employment_rate
           /\ q.fields[i].median_income = GivenSubfields[i].median_income

PercentileRule(value, population) ==
    LET below == Cardinality({i \in DOMAIN population : population[i] < Val(value)})
    IN  IF population = <<>> \/ value = None \/ Len(population) = 1 THEN I(50)
        ELSE IF below >= Len(population) - 1 THEN I(100)
        ELSE R(100 * below, Len(population) - 1)

\* the populations of the snapshot, the empty one, and the optional values
\* probed against them
PopulationsWithEmpty == Populations(given) \cup {<<>>}
OptionalProbes(population) == {None} \cup {Some(v) : v \in ProbeValues(population)}

UniqueMaximum(v, population) ==
    /\ Len(population) >= 2
    /\ Cardinality({i \in DOMAIN population : population[i] = v}) = 1
    /\ \A i \in DOMAIN population : population[i] <= v

\* the user's employment rate of the snapshot and the rates it is scored in
GivenEmpRate ==
    GetOpt(Get(Get(given, "labour_force", EmptyDict), "summary", EmptyDict), "employment_rate")
GivenEmpRates ==
    Map(Get(Get(given, "labour_force", EmptyDict), "comparison", <<>>),
        LAMBDA c : c.employment_rate)

\* C24: _percentile_score is 50.0 for an empty population, an absent value or
\* a population of one, and else min(100, (number of elements strictly less
\* than the value) / (n - 1) * 100): elements equal to the value are not
\* counted, the score is non-decreasing in the value, and a value equal to
\* the unique maximum of the population scores 100
C24_PercentileRule ==
    /\ \A population \in PopulationsWithEmpty :
        /\ \A v \in OptionalProbes(population) :
               _percentile_score(v, population) = PercentileRule(v, population)
        /\ \A v \in ProbeValues(population) : \A w \in ProbeValues(population) :
               v <= w => RLe(_percentile_score(Some(v), population),
                             _percentile_score(Some(w), population))
        /\ \A v \in Range(population) :
               UniqueMaximum(v, population) =>
                   _percentile_score(Some(v), population) = I(100)
    /\ (CompositeDone /\ ~NoEmployment(given)) =>
           Composite.components.Employment
               = Round(PercentileRule(GivenEmpRate, GivenEmpRates), 1)

\* the user's rate is tied with a field of the comparison and above another:
\* the tied field is not counted, and the score is below 100
C24_Witness ==
    /\ CompositeDone
    /\ GivenEmpRate # None
    /\ \E i \in DOMAIN GivenEmpRates : GivenEmpRates[i] = Val(GivenEmpRate)
    /\ \E i \in DOMAIN GivenEmpRates : GivenEmpRates[i] < Val(GivenEmpRate)
    /\ Composite.components.Employment
           = Round(R(100 * Cardinality({i \in DOMAIN GivenEmpRates :
                                           GivenEmpRates[i] < Val(GivenEmpRate)}),
                     Len(GivenEmpRates) - 1), 1)
    /\ RLt(Composite.components.Employment, I(100))

-----------------------------------------------------------------------------
(* The smoothing step *)

\* the unemployment values of the snapshot the run was entered with
GivenUnemploymentValues == SeriesValues(UserSeries(given))

\* the mean of values[max(0, i - 2) .. i] for the 1-based position j = i + 1
TrailingMean(values, j) == Mean(SubSeq(values, Max(1, j - 2), j))

\* smoothed is the growing-window trailing average of values
GrowingWindow(smoothed, values) ==
    /\ Len(smoothed) = Len(values)
    /\ \A j \in 1..Len(values) : smoothed[j] = TrailingMean(values, j)
    /\ Len(values) >= 1 => smoothed[1] = values[1]

C25_GrowingWindowFromThree ==
    \A values \in {GivenUnemploymentValues} :
        /\ Len(values) >= 3 => GrowingWindow(_moving_average(values, 3), values)
        /\ Len(values) < 3 => _moving_average(values, 3) = values
        /\ (UnemploymentDone /\ IsSuccess(UnemploymentForecast)) =>
               GrowingWindow(UnemploymentForecast.smoothed, UnemploymentForecast.values)

-----------------------------------------------------------------------------
(* The unemployment series of the three readers *)

GivenTrends == Get(Get(given, "unemployment", EmptyDict), "trends", EmptyDict)
GivenEducation == Get(Get(given, "unemployment", EmptyDict), "user_education", "")

\* the names of the levels with the id of the user's education label
LevelNames(label) ==
    IF label \in DOMAIN EDUCATION_OPTIONS
    THEN {UNEMP_EDU[i].name : i \in {j \in DOMAIN UNEMP_EDU :
                                        UNEMP_EDU[j].id = EDUCATION_OPTIONS[label].unemp}}
    ELSE {}

\* the series of the user's level when the mapping has it, else the first
\* series of the mapping, else no series
SelectedSeries ==
    LET own == LevelNames(GivenEducation) \cap DOMAIN GivenTrends
        present == {i \in DOMAIN UNEMP_EDU : UNEMP_EDU[i].name \in DOMAIN GivenTrends}
    IN  IF own # {} THEN GivenTrends[CHOOSE name \in own : TRUE]
        ELSE IF present # {}
             THEN GivenTrends[UNEMP_EDU[CHOOSE i \in present : \A j \in present : i <= j].name]
        ELSE <<>>

\* a snapshot whose mapping holds the series alone, under no label
Alone(series) ==
    "unemployment" :>
        UnemploymentWith(IF series = <<>> THEN EmptyDict
                         ELSE ("Total, all education levels" :> series), "")

\* C26: the Trend sub-score, the unemployment forecast and the volatility of
\* the risk assessment are each what they are when the mapping holds only
\* the series of the user's education level, or the first series when that
\* level is missing; no run raises, and with an empty mapping the Trend is
\* 50.0, the forecast an Error and the volatility None with grade N/A
C26_SameUnemploymentSeries ==
    \A alone \in {Alone(SelectedSeries)} :
        /\ outcome # "raised"
        /\ CompositeDone =>
               /\ Composite.components.Trend = TrendComponent(alone)
               /\ GivenTrends = EmptyDict => Composite.components.Trend = I(50)
        /\ UnemploymentDone =>
               /\ UnemploymentForecast = compute_unemployment_forecast(alone)
               /\ IsSuccess(UnemploymentForecast) =>
                      UnemploymentForecast.values = SeriesValues(SelectedSeries)
               /\ GivenTrends = EmptyDict => IsError(UnemploymentForecast)
        /\ RiskDone =>
               /\ Risk.volatility_cv = compute_risk_assessment(alone).volatility_cv
               /\ Risk.volatility_grade = compute_risk_assessment(alone).volatility_grade
               /\ GivenTrends = EmptyDict =>
                      Risk.volatility_cv = None /\ Risk.volatility_grade = "N/A"

\* the three readers have run on a mapping of three series of which the
\* user's is neither the first nor the last, and all three report its values
C26_Witness ==
    /\ CompositeDone /\ UnemploymentDone /\ RiskDone
    /\ GivenEducation = "High school diploma"
    /\ Cardinality(DOMAIN GivenTrends) = 3
    /\ "Total, all education levels" \in DOMAIN GivenTrends
    /\ "Above bachelor's degree" \in DOMAIN GivenTrends
    /\ SeriesValues(SelectedSeries) = <<I(6), I(7), R(11, 2), I(5)>>
    /\ UnemploymentForecast.values = SeriesValues(SelectedSeries)
    /\ Composite.components.Trend # TrendComponent(Alone(GivenTrends["Total, all education levels"]))
    /\ Risk.volatility_cv # None

-----------------------------------------------------------------------------
(* The interpretation of the risk assessment *)

LowRiskText == "Low risk profile - stable employment and balanced income distribution"

\* neither factor triggers on the reported metrics
NoFactorTriggers(risk) ==
    /\ risk.volatility_cv = None \/ RLe(Val(risk.volatility_cv), I(25))
    /\ risk.income_symmetry = None \/ RGe(Val(risk.income_symmetry), R(80, 100))

\* C27: the risk assessment reports the low-risk interpretation exactly when
\* volatility_cv is None or <= 25 and income_symmetry is None or >= 0.80; it
\* reports it too when neither metric is computed and overall_grade is N/A;
\* a listed factor "high unemployment volatility" comes with a volatility
\* grade of C, D or F
C27_LowRiskExactly ==
    RiskDone =>
        /\ IsSuccess(Risk)
        /\ (Risk.interpretation.text = LowRiskText) <=> NoFactorTriggers(Risk)
        /\ (Risk.interpretation.text # LowRiskText) <=> (Risk.interpretation.factors # <<>>)
        /\ (Risk.volatility_cv = None /\ Risk.income_symmetry = None) =>
               Risk.interpretation.text = LowRiskText /\ Risk.overall_grade = "N/A"
        /\ Listed(Risk.interpretation.factors, "high unemployment volatility") =>
               /\ Risk.volatility_grade \in {"C", "D", "F"}
               /\ RGt(Val(Risk.volatility_cv), I(25))
        /\ Listed(Risk.interpretation.factors,
                  "significant income inequality (median << average)") =>
               RLt(Val(Risk.income_symmetry), R(80, 100))

\* a volatility of exactly 25.0 beside a symmetry of exactly 0.8: both
\* computed, graded C, and the profile reported as low-risk
C27_Witness ==
    /\ RiskDone
    /\ Risk.volatility_cv = Some(I(25)) /\ Risk.income_symmetry = Some(R(8, 10))
    /\ Risk.volatility_grade = "C" /\ Risk.symmetry_grade = "C"
    /\ Risk.interpretation.text = LowRiskText

-----------------------------------------------------------------------------
(* The pairs of the education ROI *)

\* the canonical levels that by_education names
CanonicalNamed == PresentLevels \cap {edu_order[k] : k \in DOMAIN edu_order}

\* C28: the education ROI is an Error exactly when by_education has fewer
\* than 2 entries; a Success reports max(0, k - 1) pairs for k distinct
\* canonical levels named, in canonical order, each pair starting at the level
\* the pair before it reaches; 2 or more entries that name fewer than 2
\* distinct canonical levels give a Success with no pair and best_roi None
C28_PairsOfNamedLevels ==
    /\ outcome # "raised"
    /\ RoiDone =>
        /\ IsError(Roi) <=> Len(GivenByEducation) < 2
        /\ IsSuccess(Roi) =>
            /\ Len(Roi.levels) = Max(0, Cardinality(CanonicalNamed) - 1)
            /\ \A i \in DOMAIN Roi.levels :
                /\ Roi.levels[i].from_level \in CanonicalNamed
                /\ Roi.levels[i].to_level \in CanonicalNamed
                /\ Position(Roi.levels[i].from_level) < Position(Roi.levels[i].to_level)
                /\ i > 1 => Roi.levels[i - 1].to_level = Roi.levels[i].from_level
        /\ (Len(GivenByEducation) >= 2 /\ Cardinality(CanonicalNamed) < 2) =>
               IsSuccess(Roi) /\ Roi.levels = <<>> /\ Roi.best_roi = None

\* three entries, two of them for the Bachelor's degree and one for a level
\* outside the canonical order: a Success with no pair and no best ROI
C28_Witness ==
    /\ RoiDone
    /\ Len(GivenByEducation) = 3
    /\ PresentLevels = {"Bachelor's degree", "Certificate"}
    /\ IsSuccess(Roi)
    /\ Roi.levels = <<>>
    /\ Roi.best_roi = None

-----------------------------------------------------------------------------
(* Snapshots without a user field *)

\* the snapshot carries no user field: labour_force.user_field is absent or ""
NoUserField == Get(Get(given, "labour_force", EmptyDict), "user_field", "") = ""

C29_FirstFieldAttributed ==
    (NoUserField /\ GivenComparison # <<>> /\ GivenRanking # <<>>) =>
        /\ (FieldsDone /\ IsSuccess(Competitiveness)) =>
               \/ Competitiveness.employment_rank # None
               \/ Competitiveness.income_rank # None
        /\ (CareerDone /\ IsSuccess(CareerQuadrant)) =>
               /\ Flagged(CareerQuadrant) = DOMAIN CareerQuadrant.fields
               /\ CareerQuadrant.user_quadrant # "N/A"

-----------------------------------------------------------------------------
(* The two readings of the unemployment trend *)

Improving == "Improving - unemployment trending downward"
Worsening == "Worsening - unemployment trending upward"

\* both readings are there, the forecast a Success
BothReadings == CompositeDone /\ UnemploymentDone /\ IsSuccess(UnemploymentForecast)

\* C30 as stated: whenever the forecast reports Improving the Trend component
\* of the same snapshot is at least 50.0, and whenever it reports Worsening
\* the Trend component is at most 50.0
C30_ReadingsAgree ==
    BothReadings =>
        /\ UnemploymentForecast.interpretation = Improving =>
               RGe(Composite.components.Trend, I(50))
        /\ UnemploymentForecast.interpretation = Worsening =>
               RLe(Composite.components.Trend, I(50))

\* C30: each reading follows its own fit.  The interpretation follows the
\* slope of the line through the smoothed series (Improving below -0.1,
\* Worsening above 0.1), the Trend component is 50 - 25 * slope of the line
\* through the raw series, clamped and rounded; the two agree whenever the
\* raw slope has the sign of the reading or is zero
C30_EachReadingItsOwnFit ==
    BothReadings =>
        \A raw \in {Polyfit(UnemploymentForecast.values).slope},
           fit \in {Polyfit(UnemploymentForecast.smoothed).slope} :
            /\ UnemploymentForecast.interpretation = Improving <=> RLt(fit, R(-1, 10))
            /\ UnemploymentForecast.interpretation = Worsening <=> RGt(fit, R(1, 10))
            /\ Composite.components.Trend
                   = Round(Clamp100(RSub(I(50), RMul(raw, I(25)))), 1)
            /\ (UnemploymentForecast.interpretation = Improving /\ RLe(raw, I(0))) =>
                   RGe(Composite.components.Trend, I(50))
            /\ (UnemploymentForecast.interpretation = Worsening /\ RGe(raw, I(0))) =>
                   RLe(Composite.components.Trend, I(50))

\* a forecast that reports Improving beside a Trend component below 50: the
\* smoothed series falls while the raw series rises
C30_Witness ==
    /\ BothReadings
    /\ UnemploymentForecast.interpretation = Improving
    /\ RLt(Composite.components.Trend, I(50))
    /\ RGt(Polyfit(UnemploymentForecast.values).slope, I(0))

=============================================================================
